---- MODULE Spec2Model ----
(***************************************************************************)
(* Model of the three scripts of cryo-et-pipeline.                         *)
(*                                                                         *)
(* The halfset generator (src/halftomo_reconstruct.py): the metadata       *)
(* classifier check_metadata, the job-file renderer construct_coms, the    *)
(* step runners newstack, tilt and trimvol, the driver generate_halfsets,  *)
(* and the rest of the script: subtransfer, the hand-off to the denoising  *)
(* job and sync_db.  The reconstruction launcher (src/db_reconstruct.py)   *)
(* and the denoising wrapper (src/pyDDW.py) follow it.  One behaviour is   *)
(* one run of one script; the variables of the other scripts stay idle.    *)
(*                                                                         *)
(* File contents, command output and log text are TLA+ strings; "x in s"   *)
(* of Python is Contains(s, x), computed on the characters.  A file that   *)
(* may be absent is a sequence of length 0 (absent) or 1 (its content).    *)
(***************************************************************************)
EXTENDS Integers, Sequences, FiniteSets, TLC

VARIABLES
    dirs,     \* the dataset directories of the batch, in get_datasets order
    cur,      \* index of the dataset the for loop of generate_halfsets is at
    pc,       \* position of the script
    prog,     \* generate_halfsets' local prog (status of the current dataset)
    st,       \* per dataset: status returned by check_metadata and how it ended
    outs,     \* the stdout captured by the last step run for the current dataset
    trace,    \* history: calls, returns, external commands, writes, log records
    errs,     \* the stderr captured by the last step run for the current dataset
    tools,    \* what the external tools of this run may print, and whether
              \* reading their output may raise
    cwd,      \* the working directory of the process
    tree,     \* the paths under the batch directory that lie in halfsets
              \* directories: these directories and the files in them
    db,       \* sync_db: the remote destinations found to exist
    sync,     \* sync_db: index of the halfsets directory whose rsync the
              \* script waits for, 0 when it waits for none
    lw,       \* the reconstruction launcher (db_reconstruct.py)
    ddw       \* the denoising wrapper (pyDDW.py)

vars == <<dirs, cur, pc, prog, st, outs, trace, errs, tools, cwd, tree, db, sync, lw, ddw>>

\* what generate_halfsets never touches
rest == <<tools, tree, db, sync, lw, ddw>>

(***************************** bounds **************************************)
MaxDatasets == 2       \* dataset directories in one batch
MaxZ == 4              \* slices of the raw tilt series (0..MaxZ)
SpecZ == 10            \* the slice count of the spec's example
MaxSize == 4           \* image sizes over X and Z (1..MaxSize)
MaxTemplateLines == 2  \* lines of an existing tilt.com
MaxRounds == 2         \* rounds of get_mdoc's poll that are counted
MaxDdwDirs == 6        \* dataset directories the denoising wrapper searches

(************************* program constants *******************************)
BIN == 6
GPU == 0
SAMPLE_N == 5          \* get_random_halfsets(halfsets, n=5)

(**************************** strings **************************************)
\* Python's "k in s" on str
Contains(s, k) ==
    \E i \in 1..(Len(s) - Len(k) + 1) : SubSeq(s, i, i + Len(k) - 1) = k

\* Python's ",".join(str(x) for x in seq)
RECURSIVE JoinInts(_)
JoinInts(seq) ==
    IF Len(seq) = 0 THEN ""
    ELSE IF Len(seq) = 1 THEN ToString(seq[1])
    ELSE ToString(seq[1]) \o "," \o JoinInts(Tail(seq))

\* Iterating a text file: the lines, each with its "\n", the last possibly without
RECURSIVE SplitLines(_)
SplitLines(s) ==
    IF Len(s) = 0 THEN <<>>
    ELSE IF ~Contains(s, "\n") THEN <<s>>
    ELSE LET i == CHOOSE j \in 1..Len(s) :
                      /\ SubSeq(s, j, j) = "\n"
                      /\ \A k \in 1..(j - 1) : SubSeq(s, k, k) # "\n"
         IN  <<SubSeq(s, 1, i)>> \o SplitLines(SubSeq(s, i + 1, Len(s)))

NoFile == <<>>
File(text) == <<text>>
Exists(f) == Len(f) = 1
Text(f) == f[1]

(************************ check_metadata ***********************************)
\* (mutant) the first test written with "or" between the transform and the stack
check_metadata_branch_or(d) ==
    IF (~d.xf \/ ~d.ali) \/ ~d.tlt \/ ~d.xtilt THEN 1
    ELSE IF d.ali /\ d.tlt /\ d.xtilt THEN 2
    ELSE IF d.xf /\ d.tlt /\ d.xtilt /\ ~d.ali THEN 3
    ELSE 4

\* The if/elif chain of check_metadata on the four glob results; branch 4 is
\* the trailing "return 0".
check_metadata_branch(d) ==
    IF (~d.xf /\ ~d.ali) \/ ~d.tlt \/ ~d.xtilt THEN 1
    ELSE IF d.ali /\ d.tlt /\ d.xtilt THEN 2
    ELSE IF d.xf /\ d.tlt /\ d.xtilt /\ ~d.ali THEN 3
    ELSE 4

check_metadata(d) ==
    LET b == check_metadata_branch(d)
    IN  IF b = 1 THEN 0 ELSE IF b = 2 THEN 1 ELSE IF b = 3 THEN 2 ELSE 0

(************************ construct_coms ***********************************)
\* (mutant) the frame numbers left 0-indexed
RECURSIVE FramesFrom0(_, _, _)
FramesFrom0(i, nz, parity) ==
    IF i >= nz THEN <<>>
    ELSE (IF i % 2 = parity THEN <<i>> ELSE <<>>) \o FramesFrom0(i + 1, nz, parity)

\* [i+1 for i in range(nz) if i % 2 == parity]
RECURSIVE FramesFrom(_, _, _)
FramesFrom(i, nz, parity) ==
    IF i >= nz THEN <<>>
    ELSE (IF i % 2 = parity THEN <<i + 1>> ELSE <<>>) \o FramesFrom(i + 1, nz, parity)

evens_line(d) == "INCLUDE " \o JoinInts(FramesFrom(0, d.mrc.nz, 0))
odds_line(d) == "INCLUDE " \o JoinInts(FramesFrom(0, d.mrc.nz, 1))

newst_text(name) ==
    "$setenv IMOD_OUTPUT_FORMAT MRC\n"
    \o "$newstack -StandardInput\n"
    \o "AntialiasFilter\t4\n"
    \o "InputFile\t" \o name \o ".mrc\n"
    \o "OutputFile\t" \o name \o "_ali.mrc\n"
    \o "TransformFile\t" \o name \o ".xf\n"
    \o "LinearInterpolation\t0\n"
    \o "BinByFactor\t" \o ToString(BIN) \o "\n"
    \o "TaperAtFill\t1,1\n"
    \o "AdjustOrigin\n"
    \o "OffsetsInXandY\t0,0\n"
    \o "#DistortionField\t.idf\n"
    \o "ImagesAreBinned\t1\n"
    \o "#GradientFile\t" \o name \o ".maggrad\n"
    \o "$if (-e ./savework) ./savework"

\* (mutant) the bin factor taken over Z instead of X
rec_bin_z(d) == d.mrc.nz \div d.rec.nz

\* rec_bin = full_mage_size[0] // rec_image_size[0]
rec_bin(d) == d.mrc.nx \div d.rec.nx

\* rec_thickness = int(rec_bin * rec_image_size[2])
rec_thickness(d) == rec_bin(d) * d.rec.nz

\* The text written by write_text in the branch without a tilt.com; half is
\* "evens" or "odds" and include the INCLUDE line of that half.
fresh_text(d, half, include) ==
    "$setenv IMOD_OUTPUT_FORMAT MRC\n"
    \o "$tilt -StandardInput\n"
    \o "FakeSIRTiterations\t10\n"
    \o "InputProjections " \o d.name \o "_ali.mrc\n"
    \o "OutputFile\t" \o d.name \o "_full_rec_" \o half \o ".mrc\n"
    \o "IMAGEBINNED\t" \o ToString(BIN) \o "\n"
    \o "TILTFILE " \o d.name \o ".tlt\n"
    \o "XTILTFILE " \o d.name \o ".xtilt\n"
    \o "UseGPU\t" \o ToString(GPU) \o "\n"
    \o "THICKNESS\t" \o ToString(rec_thickness(d)) \o "\n"
    \o "RADIAL .35 .035\n"
    \o "FalloffIsTrueSigma 1\n"
    \o "SCALE 0 0.00144\n"
    \o "PERPENDICULAR\n"
    \o "MODE 1\n"
    \o "FULLIMAGE\t " \o ToString(d.mrc.nx) \o " " \o ToString(d.mrc.ny) \o "\n"
    \o "SUBSETSTART\t0 0\n"
    \o "AdjustOrigin 1\n"
    \o include \o "\n"
    \o "$if (-e ./savework) ./savework"

\* The substring the loop looks for to replace the GPU line
gpu_key == "useGPU"

\* One iteration of "for line in f": what is appended to tilt_evens.com and to
\* tilt_odds.com for one line of tilt.com.
subst_line(name, line) ==
    LET l1 == IF Contains(line, "InputProjections")
              THEN "InputProjections " \o name \o "_ali.mrc\n" ELSE line
    IN  IF Contains(l1, "OutputFile")
        THEN [evens |-> "OutputFile\t" \o name \o "_full_rec_evens.mrc\n",
              odds  |-> "OutputFile\t" \o name \o "_full_rec_odds.mrc\n"]
        ELSE LET l2 == IF Contains(l1, "IMAGEBINNED")
                       THEN "IMAGEBINNED\t" \o ToString(BIN) \o "\n" ELSE l1
                 l3 == IF Contains(l2, "TILTFILE")
                       THEN "TILTFILE " \o name \o ".tlt\n" ELSE l2
                 l4 == IF Contains(l3, "XTILTFILE")
                       THEN "XTILTFILE " \o name \o ".xtilt\n" ELSE l3
                 l5 == IF Contains(l4, gpu_key)
                       THEN "UseGPU\t    " \o ToString(GPU) \o "\n" ELSE l4
             IN  [evens |-> l5, odds |-> l5]

\* The loop over the lines of tilt.com, appending to both files
RECURSIVE subst_lines(_, _)
subst_lines(name, lines) ==
    IF Len(lines) = 0 THEN [evens |-> "", odds |-> ""]
    ELSE LET h == subst_line(name, Head(lines))
             t == subst_lines(name, Tail(lines))
         IN  [evens |-> h.evens \o t.evens, odds |-> h.odds \o t.odds]

\* The branch with an existing tilt.com: the rewritten lines, then the INCLUDE
\* line appended with no newline before or after it.
template_text(d) ==
    LET body == subst_lines(d.name, SplitLines(Text(d.tilt_com)))
    IN  [evens |-> body.evens \o evens_line(d), odds |-> body.odds \o odds_line(d)]

\* (mutant) job files of an earlier run left where they are
unlink_stale_skipped(d) == d

\* if tilt_evens.exists(): tilt_evens.unlink(); the same for tilt_odds
unlink_stale(d) == [d EXCEPT !.tilt_evens = NoFile, !.tilt_odds = NoFile]

\* open('a') and write: after what the file holds, if it exists
append(f, text) == File((IF Exists(f) THEN Text(f) ELSE "") \o text)

\* construct_coms(dataset, status): the directory afterwards, the job files
\* written in order, and whether the call raised.  list(glob('*.mdoc'))[0]
\* raises IndexError before anything is written when there is no mdoc.  With
\* a tilt.com the job files are appended to, without one written afresh.
construct_coms(d, status) ==
    IF ~d.mdoc
    THEN [raised |-> TRUE, dir |-> d, written |-> <<>>]
    ELSE LET d1 == IF status = 2
                   THEN [d EXCEPT !.newst_com = File(newst_text(d.name))] ELSE d
             w1 == IF status = 2 THEN <<"newst.com">> ELSE <<>>
             d2 == unlink_stale(d1)
         IN  [raised  |-> FALSE,
              dir     |-> IF Exists(d.tilt_com)
                          THEN [d2 EXCEPT !.tilt_evens = append(@, template_text(d).evens),
                                          !.tilt_odds = append(@, template_text(d).odds)]
                          ELSE [d2 EXCEPT !.tilt_evens = File(fresh_text(d, "evens", evens_line(d))),
                                          !.tilt_odds = File(fresh_text(d, "odds", odds_line(d)))],
              written |-> w1 \o <<"tilt_evens.com", "tilt_odds.com">>]

(************************** step runners ***********************************)
\* (mutant) success decided by the absence of the error marker
succeeded_unless_error(out) == ~Contains(out, "ERROR")

\* 'finished successfully' in out.stdout
succeeded(out) == Contains(out, "finished successfully")

\* the elif branch: 'ERROR' in out.stdout, reached only when not succeeded
logs_error(out) == ~succeeded(out) /\ Contains(out, "ERROR")

\* (mutant) the two streams of the command read as one
captured_with_stderr(out, err) == out \o err

\* what the classification reads of subprocess.run(..., capture_output=True):
\* out.stdout, never out.stderr
captured(out, err) == out

Ev(op, i, what, ok, err) == [op |-> op, ds |-> i, what |-> what, ok |-> ok, err |-> err]

\* subprocess.run(cmd, ...) and the if/elif that follows it: the command run
\* and the logger.error if any
run_events(i, cmd, out) ==
    <<Ev("run", i, cmd, FALSE, FALSE)>>
    \o (IF logs_error(out) THEN <<Ev("log", i, "step error", FALSE, FALSE)>> ELSE <<>>)

\* newstack(dataset): one command, True exactly when it succeeded
newstack(i, d, out) ==
    [ret |-> succeeded(out), events |-> run_events(i, "subm newst.com", out)]

\* (mutant) the counter also incremented when only the odds command succeeded
success_count_odds_twice(out1, out2) ==
    (IF succeeded(out1) THEN 1 ELSE 0) + (IF succeeded(out2) THEN 2 ELSE 0)

\* success counter of tilt and trimvol after both commands
success_count(out1, out2) ==
    (IF succeeded(out1) THEN 1 ELSE 0) + (IF succeeded(out2) THEN 1 ELSE 0)

\* tilt(dataset): evens then odds, True if success == 2
tilt(i, d, out1, out2) ==
    [ret |-> success_count(out1, out2) = 2,
     events |-> run_events(i, "subm tilt_evens.com", out1)
                \o run_events(i, "subm tilt_odds.com", out2)]

\* cmd = f'trimvol -rx {full_rec_<half>} {rec_<half>}'
trimvol_cmd(name, half) ==
    "trimvol -rx " \o name \o "_full_rec_" \o half \o ".mrc "
    \o name \o "_rec_" \o half \o ".mrc"

\* trimvol(dataset): evens then odds, True if success == 2
trimvol(i, d, out1, out2) ==
    [ret |-> success_count(out1, out2) = 2,
     events |-> run_events(i, trimvol_cmd(d.name, "evens"), out1)
                \o run_events(i, trimvol_cmd(d.name, "odds"), out2)]

(****************************** chdir **************************************)
\* os.chdir(path) from the directory at: an absolute path as it is, a relative
\* one below the current directory
os_chdir(at, path) ==
    IF Len(path) > 0 /\ SubSeq(path, 1, 1) = "/" THEN path ELSE at \o "/" \o path

\* entering "with chdir(path)": prev_cwd = Path.cwd(); os.chdir(path)
chdir_enter(at, path) == [prev_cwd |-> at, cwd |-> os_chdir(at, path)]

\* (mutant) the generator without try/finally: an exception thrown into it at
\* the yield skips the os.chdir(prev_cwd) after it
chdir_exit_no_finally(c, how) == IF how = "raise" THEN c.cwd ELSE c.prev_cwd

\* leaving the block, by a return inside it ("return") or by an exception
\* ("raise"): the finally clause runs os.chdir(prev_cwd)
chdir_exit(c, how) == os_chdir(c.cwd, c.prev_cwd)

\* the directory a block entered from the directory at is left in
after_chdir(at, path, how) == chdir_exit(chdir_enter(at, path), how)

(************************* inputs of the model *****************************)
\* the directory the script is started in and the batch directory p given to it
StartDir == "/work"
BatchDir == "batch"

\* a dataset directory d of get_datasets(p), as the path p / d.name
DatasetPath(d) == BatchDir \o "/" \o d.name

\* What an external command may print on stdout
Stdouts ==
    { "",
      "finished successfully\n",
      "ERROR: tilt\n",
      "ERROR: GL\nfinished successfully\n" }

BaseDir ==
    [name |-> "ts", xf |-> FALSE, ali |-> FALSE, tlt |-> FALSE, xtilt |-> FALSE,
     mdoc |-> TRUE, tilt_com |-> NoFile,
     newst_com |-> NoFile, tilt_evens |-> NoFile, tilt_odds |-> NoFile,
     mrc |-> [nx |-> MaxSize, ny |-> MaxSize, nz |-> MaxZ],
     rec |-> [nx |-> 1, nz |-> 1],
     full_rec_evens |-> FALSE, full_rec_odds |-> FALSE,
     rec_evens |-> FALSE, rec_odds |-> FALSE,
     halfsets |-> FALSE]

\* Every presence combination of the four sidecar files, with and without an
\* mdoc, no tilt.com
SidecarDirs ==
    { [BaseDir EXCEPT !.xf = b[1], !.ali = b[2], !.tlt = b[3], !.xtilt = b[4],
                      !.mdoc = b[5]] : b \in [1..5 -> BOOLEAN] }

\* Directories of a batch: nothing transferred yet; complete with an aligned
\* stack; transform but no aligned stack; the same without an mdoc
BatchDirs ==
    { BaseDir,
      [BaseDir EXCEPT !.xf = TRUE, !.ali = TRUE, !.tlt = TRUE, !.xtilt = TRUE],
      [BaseDir EXCEPT !.xf = TRUE, !.tlt = TRUE, !.xtilt = TRUE],
      [BaseDir EXCEPT !.xf = TRUE, !.tlt = TRUE, !.xtilt = TRUE, !.mdoc = FALSE] }

SampleLines ==
    { "InputProjections a.ali\n",
      "OutputFile a_full.rec\n",
      "IMAGEBINNED 1\n",
      "TILTFILE a.tlt\n",
      "XTILTFILE a.xtilt\n",
      "UseGPU 1\n",
      "THICKNESS 300\n",
      "# useGPU 1 on the cluster\n" }

RECURSIVE Concat(_)
Concat(seq) == IF Len(seq) = 0 THEN "" ELSE Head(seq) \o Concat(Tail(seq))

\* Texts of tilt.com: up to MaxTemplateLines sample lines, the last line with
\* or without its newline
Templates ==
    LET whole == { Concat(t) : t \in UNION { [1..n -> SampleLines] : n \in 0..MaxTemplateLines } }
    IN  whole \cup { SubSeq(t, 1, Len(t) - 1) : t \in whole \ {""} }

\* Directories with a tilt.com and an aligned stack
TemplateDirs ==
    { [BaseDir EXCEPT !.xf = TRUE, !.ali = TRUE, !.tlt = TRUE, !.xtilt = TRUE,
                      !.tilt_com = File(t), !.mrc.nz = z] :
        t \in Templates, z \in {1, MaxZ} }

\* Directories without a tilt.com: over the slice counts, and over the image
\* sizes (with the sizes of the spec's example)
FreshDirs ==
    { [BaseDir EXCEPT !.xf = TRUE, !.ali = a, !.tlt = TRUE, !.xtilt = TRUE,
                      !.mrc.nz = z] :
        a \in BOOLEAN, z \in (0..MaxZ) \cup {SpecZ} }
    \cup
    { [BaseDir EXCEPT !.xf = TRUE, !.ali = a, !.tlt = TRUE, !.xtilt = TRUE,
                      !.mrc = [nx |-> fx, ny |-> fx, nz |-> MaxZ],
                      !.rec = [nx |-> rx, nz |-> rz]] :
        a \in BOOLEAN, fx \in 1..MaxSize, rx \in 1..MaxSize, rz \in 1..MaxSize }
    \cup
    { [BaseDir EXCEPT !.xf = TRUE, !.ali = a, !.tlt = TRUE, !.xtilt = TRUE,
                      !.mrc = [nx |-> 4096, ny |-> 4096, nz |-> SpecZ],
                      !.rec = [nx |-> 1024, nz |-> 512]] : a \in BOOLEAN }

\* Directories classified as direct or as needing realignment, with and
\* without an mdoc, a tilt.com, and job files of an earlier run
StaleText == "old\n"

RerunDirs ==
    { [BaseDir EXCEPT !.xf = TRUE, !.ali = a, !.tlt = TRUE, !.xtilt = TRUE,
                      !.mdoc = m, !.tilt_com = t,
                      !.tilt_evens = e, !.tilt_odds = o] :
        a \in BOOLEAN, m \in BOOLEAN,
        t \in {NoFile, File("OutputFile a_full.rec\nTHICKNESS 300\n")},
        e \in {NoFile, File(StaleText)}, o \in {NoFile, File(StaleText)} }

Named(d, i) == [d EXCEPT !.name = "ts" \o ToString(i)]

NewSt(n) == [i \in 1..n |-> [status |-> -1, branch |-> 0, end |-> "pending"]]

\* The repertoire of the external tools in one run: what a command may print
\* on stdout and on stderr, and whether its output may fail to decode as
\* UTF-8 (subprocess.run(..., encoding='utf-8') then raises
\* UnicodeDecodeError).  StdoutOnly: every stdout, nothing on stderr.
StdoutOnly == [stdouts |-> Stdouts, stderrs |-> {""}, raises |-> FALSE]

\* the paths a halfsets directory left by an earlier run of the script holds
HalfsetsOf(d) ==
    { DatasetPath(d) \o "/halfsets",
      DatasetPath(d) \o "/halfsets/" \o d.name \o "_rec_evens.mrc",
      DatasetPath(d) \o "/halfsets/" \o d.name \o "_rec_odds.mrc" }

\* the other two scripts, not running
LwOff == [pc |-> "off"]
DdwOff == [pc |-> "off"]

InitWith(ds) ==
    /\ dirs = [i \in 1..Len(ds) |-> Named(ds[i], i)]
    /\ cur = 1
    /\ pc = "loop"
    /\ prog = -1
    /\ st = NewSt(Len(ds))
    /\ outs = <<>>
    /\ trace = <<>>
    /\ errs = <<>>
    /\ cwd = StartDir
    /\ tree = UNION { HalfsetsOf(Named(ds[i], i)) : i \in { j \in 1..Len(ds) : ds[j].halfsets } }
    /\ db = {}
    /\ sync = 0
    /\ lw = LwOff
    /\ ddw = DdwOff

\* A batch of up to MaxDatasets directories
Init ==
    /\ \E n \in 0..MaxDatasets : \E ds \in [1..n -> BatchDirs] : InitWith(ds)
    /\ tools = StdoutOnly

\* One directory, over the sidecar combinations, templates, slice counts and sizes
InitOne ==
    /\ \E d \in SidecarDirs \cup TemplateDirs \cup FreshDirs : InitWith(<<d>>)
    /\ tools = StdoutOnly

(***************************** the driver **********************************)
N == Len(dirs)

\* a step returned False: logging.error(...) and continue
Skip(events) ==
    /\ trace' = trace \o events \o <<Ev("log", cur, "driver error", FALSE, FALSE)>>
    /\ st' = [st EXCEPT ![cur].end = "skipped"]
    /\ cur' = cur + 1
    /\ pc' = "loop"
    /\ prog' = prog

\* for d in datasets: prog = check_metadata(d); raise if prog == 0
Classify ==
    /\ pc = "loop"
    /\ cur <= N
    /\ LET s == check_metadata(dirs[cur])
           b == check_metadata_branch(dirs[cur])
           call == <<Ev("call", cur, "check_metadata", FALSE, FALSE)>>
       IN  /\ prog' = s
           /\ IF s = 0
              THEN /\ pc' = "raised"
                   /\ st' = [st EXCEPT ![cur] = [status |-> s, branch |-> b, end |-> "raised"]]
                   /\ trace' = trace \o call \o <<Ev("raise", cur, "Exception", FALSE, FALSE)>>
              ELSE /\ pc' = "render"
                   /\ st' = [st EXCEPT ![cur] = [status |-> s, branch |-> b, end |-> "running"]]
                   /\ trace' = trace \o call
    /\ outs' = <<>>
    /\ errs' = <<>>
    /\ UNCHANGED <<dirs, cur, cwd>>
    /\ UNCHANGED rest

\* construct_coms(d, prog)
Render ==
    /\ pc = "render"
    /\ LET r == construct_coms(dirs[cur], prog)
           call == <<Ev("call", cur, "construct_coms", FALSE, FALSE)>>
           wr == [k \in 1..Len(r.written) |-> Ev("write", cur, r.written[k], FALSE, FALSE)]
       IN  /\ dirs' = [dirs EXCEPT ![cur] = r.dir]
           /\ IF r.raised
              THEN /\ pc' = "raised"
                   /\ st' = [st EXCEPT ![cur].end = "raised"]
                   /\ trace' = trace \o call \o <<Ev("raise", cur, "IndexError", FALSE, FALSE)>>
              ELSE /\ pc' = IF prog = 2 THEN "newstack" ELSE "tilt"
                   /\ st' = st
                   /\ trace' = trace \o call \o wr
                                 \o <<Ev("return", cur, "construct_coms", TRUE, FALSE)>>
    /\ UNCHANGED <<cur, prog, outs, errs, cwd>>
    /\ UNCHANGED rest

\* if prog == 2: if not newstack(d): logging.error(...); continue
\* A newstack run that reports success leaves <name>_ali.mrc behind.
Newstack ==
    /\ pc = "newstack"
    /\ UNCHANGED rest
    /\ cwd' = after_chdir(cwd, DatasetPath(dirs[cur]), "return")
    /\ \E out \in tools.stdouts, err \in tools.stderrs :
         LET r == newstack(cur, dirs[cur], captured(out, err))
             ev == <<Ev("call", cur, "newstack", FALSE, FALSE)>> \o r.events
                   \o <<Ev("return", cur, "newstack", r.ret, FALSE)>>
         IN  /\ outs' = <<out>>
             /\ errs' = <<err>>
             /\ dirs' = [dirs EXCEPT ![cur].ali = @ \/ succeeded(out)]
             /\ IF r.ret
                THEN /\ pc' = "tilt"
                     /\ trace' = trace \o ev
                     /\ UNCHANGED <<cur, prog, st>>
                ELSE Skip(ev)

\* if not tilt(d): logging.error(...); continue
\* A tilt run that reports success leaves its <name>_full_rec_<half>.mrc behind.
Tilt ==
    /\ pc = "tilt"
    /\ UNCHANGED rest
    /\ cwd' = after_chdir(cwd, DatasetPath(dirs[cur]), "return")
    /\ \E out1 \in tools.stdouts, out2 \in tools.stdouts,
          err1 \in tools.stderrs, err2 \in tools.stderrs :
         LET r == tilt(cur, dirs[cur], captured(out1, err1), captured(out2, err2))
             ev == <<Ev("call", cur, "tilt", FALSE, FALSE)>> \o r.events
                   \o <<Ev("return", cur, "tilt", r.ret, FALSE)>>
         IN  /\ outs' = <<out1, out2>>
             /\ errs' = <<err1, err2>>
             /\ dirs' = [dirs EXCEPT ![cur].full_rec_evens = @ \/ succeeded(out1),
                                     ![cur].full_rec_odds = @ \/ succeeded(out2)]
             /\ IF r.ret
                THEN /\ pc' = "trimvol"
                     /\ trace' = trace \o ev
                     /\ UNCHANGED <<cur, prog, st>>
                ELSE Skip(ev)

\* if not trimvol(d): logging.error(...); continue -- and the end of the loop body
\* A trimvol run that reports success leaves its <name>_rec_<half>.mrc behind.
Trimvol ==
    /\ pc = "trimvol"
    /\ UNCHANGED rest
    /\ cwd' = after_chdir(cwd, DatasetPath(dirs[cur]), "return")
    /\ \E out1 \in tools.stdouts, out2 \in tools.stdouts,
          err1 \in tools.stderrs, err2 \in tools.stderrs :
         LET r == trimvol(cur, dirs[cur], captured(out1, err1), captured(out2, err2))
             ev == <<Ev("call", cur, "trimvol", FALSE, FALSE)>> \o r.events
                   \o <<Ev("return", cur, "trimvol", r.ret, FALSE)>>
         IN  /\ outs' = <<out1, out2>>
             /\ errs' = <<err1, err2>>
             /\ dirs' = [dirs EXCEPT ![cur].rec_evens = @ \/ succeeded(out1),
                                     ![cur].rec_odds = @ \/ succeeded(out2)]
             /\ IF r.ret
                THEN /\ pc' = "loop"
                     /\ cur' = cur + 1
                     /\ st' = [st EXCEPT ![cur].end = "done"]
                     /\ trace' = trace \o ev
                     /\ prog' = prog
                ELSE Skip(ev)

\* the for loop is exhausted: generate_halfsets returns
LoopExit ==
    /\ pc = "loop"
    /\ cur > N
    /\ pc' = "subtransfer"
    /\ trace' = trace \o <<Ev("return", 0, "generate_halfsets", TRUE, FALSE)>>
    /\ UNCHANGED <<dirs, cur, prog, st, outs, errs, cwd>>
    /\ UNCHANGED rest

\* the command of newstack, and the first command of tilt and of trimvol, the
\* evens one
first_cmd(step, d) ==
    IF step = "newstack" THEN "subm newst.com"
    ELSE IF step = "tilt" THEN "subm tilt_evens.com"
    ELSE trimvol_cmd(d.name, "evens")

\* the second command of tilt and of trimvol
second_cmd(step, d) ==
    IF step = "tilt" THEN "subm tilt_odds.com" ELSE trimvol_cmd(d.name, "odds")

\* subprocess.run(cmd, shell=True, capture_output=True, encoding='utf-8') raises
\* inside the with block of newstack, tilt or trimvol: the exception leaves
\* the block and, caught nowhere, generate_halfsets and the process.  It
\* raises before the command is started (no process to be had) or after the
\* command has run, when its output is decoded (output that is not UTF-8).
\* In tilt and trimvol it may be the second command that raises: the first has
\* then run, its output has been classified and what it wrote is there.
StepRaises ==
    /\ tools.raises
    /\ pc \in {"newstack", "tilt", "trimvol"}
    /\ cwd' = after_chdir(cwd, DatasetPath(dirs[cur]), "raise")
    /\ st' = [st EXCEPT ![cur].end = "raised"]
    /\ pc' = "raised"
    /\ \E started \in BOOLEAN :
          \/ /\ trace' = trace \o <<Ev("call", cur, pc, FALSE, FALSE)>>
                               \o (IF started
                                   THEN <<Ev("run", cur, first_cmd(pc, dirs[cur]), FALSE, FALSE)>>
                                   ELSE <<>>)
                               \o <<Ev("raise", cur, "subprocess.run", FALSE, FALSE)>>
             /\ UNCHANGED <<dirs, outs, errs>>
          \/ /\ pc \in {"tilt", "trimvol"}
             /\ \E out1 \in tools.stdouts, err1 \in tools.stderrs :
                   /\ trace' = trace \o <<Ev("call", cur, pc, FALSE, FALSE)>>
                                     \o run_events(cur, first_cmd(pc, dirs[cur]), captured(out1, err1))
                                     \o (IF started
                                         THEN <<Ev("run", cur, second_cmd(pc, dirs[cur]), FALSE, FALSE)>>
                                         ELSE <<>>)
                                     \o <<Ev("raise", cur, "subprocess.run", FALSE, FALSE)>>
                   /\ dirs' = IF pc = "tilt"
                              THEN [dirs EXCEPT ![cur].full_rec_evens = @ \/ succeeded(out1)]
                              ELSE [dirs EXCEPT ![cur].rec_evens = @ \/ succeeded(out1)]
                   /\ outs' = <<out1>>
                   /\ errs' = <<err1>>
    /\ UNCHANGED <<cur, prog>>
    /\ UNCHANGED rest

Next == Classify \/ Render \/ Newstack \/ Tilt \/ Trimvol \/ LoopExit

(**************************** subtransfer **********************************)
\* Path.name and Path.parent: around the last "/" (position 0 if there is none)
LastSlash(path) ==
    LET at == { i \in 1..Len(path) : SubSeq(path, i, i) = "/" }
    IN  IF at = {} THEN 0 ELSE CHOOSE i \in at : \A j \in at : j <= i
NameOf(path) == SubSeq(path, LastSlash(path) + 1, Len(path))
ParentOf(path) == SubSeq(path, 1, LastSlash(path) - 1)

EndsWith(s, k) == Len(k) <= Len(s) /\ SubSeq(s, Len(s) - Len(k) + 1, Len(s)) = k
BeginsWith(s, k) == Len(k) <= Len(s) /\ SubSeq(s, 1, Len(k)) = k

\* a set of paths as the sequence a top-down walk yields: a directory's own
\* entries before those of its subdirectories
RECURSIVE WalkOrder(_)
WalkOrder(S) ==
    IF S = {} THEN <<>>
    ELSE LET first == CHOOSE x \in S : \A y \in S : Len(x) <= Len(y)
         IN  <<first>> \o WalkOrder(S \ {first})

\* the half-set outputs in the dataset directories themselves, as paths
RootFiles(ds) ==
    { DatasetPath(ds[i]) \o "/" \o ds[i].name \o "_rec_evens.mrc" :
        i \in { j \in 1..Len(ds) : ds[j].rec_evens } }
    \cup
    { DatasetPath(ds[i]) \o "/" \o ds[i].name \o "_rec_odds.mrc" :
        i \in { j \in 1..Len(ds) : ds[j].rec_odds } }

\* [f for f in p.rglob('*' + suffix) if 'full' not in f.name] over the paths
\* in files, the dataset directories visited in the order of ds
RECURSIVE rglob(_, _, _, _)
rglob(ds, i, files, suffix) ==
    IF i > Len(ds) THEN <<>>
    ELSE WalkOrder({ f \in files : /\ BeginsWith(f, DatasetPath(ds[i]) \o "/")
                                   /\ EndsWith(NameOf(f), suffix)
                                   /\ ~Contains(NameOf(f), "full") })
         \o rglob(ds, i + 1, files, suffix)

\* f.rename(subdir / f.name) on a set of paths
rename(files, f, subdir) == (files \ {f}) \cup {subdir \o "/" \o NameOf(f)}

\* (mutant) every file moved into the halfsets directory of the first dataset
subdir_of_first(f, ds) == DatasetPath(ds[1]) \o "/halfsets"

\* subdir = Path(f'{f.parent}/halfsets')
subdir_of(f, ds) == ParentOf(f) \o "/halfsets"

\* the loop of subtransfer from its k-th round on: the files and halfsets
\* directories afterwards, the renames done, and whether files_odds[i] raised
\* IndexError
RECURSIVE move_pairs(_, _, _, _, _, _)
move_pairs(ds, k, files_evens, files_odds, files, made) ==
    IF k > Len(files_evens)
    THEN [files |-> files, made |-> made, moved |-> <<>>, raised |-> FALSE]
    ELSE LET f == files_evens[k]
             subdir == subdir_of(f, ds)
             f1 == rename(files, f, subdir)
         IN  IF k > Len(files_odds)
             THEN [files |-> f1, made |-> made \cup {subdir},
                   moved |-> <<subdir \o "/" \o NameOf(f)>>, raised |-> TRUE]
             ELSE LET r == move_pairs(ds, k + 1, files_evens, files_odds,
                                      rename(f1, files_odds[k], subdir),
                                      made \cup {subdir})
                  IN  [r EXCEPT !.moved = <<subdir \o "/" \o NameOf(f),
                                            subdir \o "/" \o NameOf(files_odds[k])>> \o @]

\* subtransfer(p) on the dataset directories ds and the halfsets paths tr
subtransfer(ds, tr) ==
    LET dirs_in == { t \in tr : NameOf(t) = "halfsets" }
        files == RootFiles(ds) \cup (tr \ dirs_in)
    IN  move_pairs(ds, 1, rglob(ds, 1, files, "_rec_evens.mrc"),
                   rglob(ds, 1, files, "_rec_odds.mrc"), files, dirs_in)

\* subtransfer(p), reached when generate_halfsets(p) has returned
Subtransfer ==
    /\ pc = "subtransfer"
    /\ LET r == subtransfer(dirs, tree)
           left == [i \in 1..N |->
                      [dirs[i] EXCEPT
                         !.rec_evens = (DatasetPath(dirs[i]) \o "/" \o dirs[i].name
                                        \o "_rec_evens.mrc") \in r.files,
                         !.rec_odds = (DatasetPath(dirs[i]) \o "/" \o dirs[i].name
                                       \o "_rec_odds.mrc") \in r.files]]
       IN  /\ dirs' = left
           /\ tree' = r.made \cup (r.files \ RootFiles(left))
           /\ trace' = trace \o <<Ev("call", 0, "subtransfer", FALSE, FALSE)>>
                          \o [k \in 1..Len(r.moved) |-> Ev("move", 0, r.moved[k], FALSE, FALSE)]
                          \o (IF r.raised THEN <<Ev("raise", 0, "IndexError", FALSE, FALSE)>>
                              ELSE <<Ev("return", 0, "subtransfer", TRUE, FALSE)>>)
           /\ pc' = IF r.raised THEN "raised" ELSE "handoff"
    /\ UNCHANGED <<cur, prog, st, outs, errs, cwd, tools, db, sync, lw, ddw>>

(****************** hand-off to the denoising job, sync_db *****************)
\* pyDDW = "/cloud-data/.../cryo-et-pipeline/pyDDW.py"
pyDDW ==
    "/cloud-data/its-cmo-darwin-magellan-workspaces-folders/WS_Cryoem/CX_LMR/"
    \o "Project_directories/cryo-et-pipeline/pyDDW.py"

\* cmd = f'tmux send-keys "python {pyDDW} 1 {p.as_posix()}" C-m'
handoff_cmd == "tmux send-keys \"python " \o pyDDW \o " 1 " \o BatchDir \o "\" C-m"

\* subprocess.run(cmd, shell=True) of the tmux command: tmux types the line
\* into the session and exits; the denoising job then runs in the session.
Handoff ==
    /\ pc = "handoff"
    /\ trace' = trace \o <<Ev("run", 0, handoff_cmd, FALSE, FALSE)>>
    /\ ddw' = [pc |-> "running"]
    /\ pc' = "sync"
    /\ UNCHANGED <<dirs, cur, prog, st, outs, errs, cwd, tools, tree, db, sync, lw>>

\* the denoising job in the tmux session comes to its end
JobEnds ==
    /\ pc \in {"sync", "rsync", "done"}
    /\ ddw = [pc |-> "running"]
    /\ ddw' = [pc |-> "exited"]
    /\ UNCHANGED <<dirs, cur, pc, prog, st, outs, errs, cwd, tools, tree, db, sync, lw, trace>>

\* subdir = src.split('/')[-2]
remote_key(src) == NameOf(ParentOf(src))

rsync_cmd(src) == "rsync --progress -avhr " \o src \o " DB_DIR/" \o remote_key(src)

\* (mutant) the warning naming the directory that was skipped
sync_warning_subdir(src) ==
    remote_key(src) \o " -- Does not yet exist in database. Skipping sync to database"

\* logger.warning('%s -- Does not yet exist in database. ...' % p.name)
sync_warning(src) ==
    NameOf(BatchDir) \o " -- Does not yet exist in database. Skipping sync to database"

\* the loop of sync_db from the k-th halfsets directory found, remote being
\* the keys whose destination exists, up to the next rsync it starts and then
\* waits for (at: the index of that directory) or to its return (at: 0)
RECURSIVE sync_rounds(_, _, _)
sync_rounds(subdirs, k, remote) ==
    IF k > Len(subdirs)
    THEN [events |-> <<Ev("return", 0, "sync_db", TRUE, FALSE)>>, at |-> 0]
    ELSE IF remote_key(subdirs[k]) \in remote
    THEN [events |-> <<Ev("run", 0, rsync_cmd(subdirs[k]), FALSE, FALSE)>>, at |-> k]
    ELSE LET r == sync_rounds(subdirs, k + 1, remote)
         IN  [events |-> <<Ev("log", 0, sync_warning(subdirs[k]), FALSE, FALSE)>> \o r.events,
              at |-> r.at]

\* subdirs = p.rglob('halfsets')
halfsets_dirs(ds, tr) == rglob(ds, 1, tr, "halfsets")

\* sync_db(p) up to its first rsync, or to its return when it starts none;
\* which destinations exist is read from the remote store
SyncDb ==
    /\ pc = "sync"
    /\ LET subdirs == halfsets_dirs(dirs, tree)
       IN  \E remote \in SUBSET { remote_key(subdirs[k]) : k \in 1..Len(subdirs) } :
               LET r == sync_rounds(subdirs, 1, remote)
               IN  /\ db' = remote
                   /\ trace' = trace \o <<Ev("call", 0, "sync_db", FALSE, FALSE),
                                          Ev("log", 0, "info: synching", FALSE, FALSE)>>
                                  \o r.events
                   /\ sync' = r.at
                   /\ pc' = IF r.at = 0 THEN "done" ELSE "rsync"
    /\ UNCHANGED <<dirs, cur, prog, st, outs, errs, cwd, tools, tree, lw, ddw>>

\* subprocess.run(cmd, shell=True) of the rsync has returned: the info record,
\* and the loop goes on to its next rsync or to the return of sync_db
RsyncReturns ==
    /\ pc = "rsync"
    /\ LET r == sync_rounds(halfsets_dirs(dirs, tree), sync + 1, db)
       IN  /\ trace' = trace \o <<Ev("log", 0, "info: finished synching", FALSE, FALSE)>>
                              \o r.events
           /\ sync' = r.at
           /\ pc' = IF r.at = 0 THEN "done" ELSE "rsync"
    /\ UNCHANGED <<dirs, cur, prog, st, outs, errs, cwd, tools, tree, db, lw, ddw>>

NextScript == Next \/ Subtransfer \/ Handoff \/ JobEnds \/ SyncDb \/ RsyncReturns

\* what the tools print in a run of the whole script: nothing or the success
\* marker
Plain == [stdouts |-> {"", "finished successfully\n"}, stderrs |-> {""}, raises |-> FALSE]

\* the directories of a batch, and one with the halfsets directory of an
\* earlier run
ScriptDirs ==
    BatchDirs
    \cup { [BaseDir EXCEPT !.xf = TRUE, !.ali = TRUE, !.tlt = TRUE, !.xtilt = TRUE,
                           !.halfsets = TRUE] }

InitScript ==
    /\ \E n \in 0..MaxDatasets : \E ds \in [1..n -> ScriptDirs] : InitWith(ds)
    /\ tools = Plain

\* a run of the whole script halftomo_reconstruct.py
SpecScript == InitScript /\ [][NextScript]_vars

Spec == Init /\ [][Next]_vars

SpecOne == InitOne /\ [][Next]_vars

\* One directory that passes the classification, on a first run or a rerun
InitRerun ==
    /\ \E d \in RerunDirs : InitWith(<<d>>)
    /\ tools = StdoutOnly

SpecRerun == InitRerun /\ [][Next]_vars

\* tools that also write to standard error: nothing, the error marker, the
\* success marker
Stderrs == {"", "ERROR: tilt\n", "finished successfully\n"}
BothStreams == [stdouts |-> Stdouts, stderrs |-> Stderrs, raises |-> FALSE]

\* One complete directory, with or without its aligned stack
InitStreams ==
    /\ \E a \in BOOLEAN :
           InitWith(<<[BaseDir EXCEPT !.xf = TRUE, !.ali = a, !.tlt = TRUE, !.xtilt = TRUE]>>)
    /\ tools = BothStreams

SpecStreams == InitStreams /\ [][Next]_vars

(*********************** the reconstruction launcher ***********************)
\* pipeline_args['out_dir'] = Path.cwd() / Path(pipeline_args['out_dir'])
OutDir == StartDir \o "/out"

\* the mdoc files that may come to exist under out_dir
MdocPaths == { OutDir \o "/ts.mrc.mdoc", OutDir \o "/sub/ts2.mrc.mdoc" }

\* what such a file holds, as the lines "for line in f" yields: a complete
\* mdoc, one still empty, one without defocus entries
MdocTexts ==
    { <<"PixelSpacing = 2.7\n", "TiltAngle = -60.0\n", "Defocus = -3.5\n",
        "TargetDefocus = -4\n">>,
      <<>>,
      <<"PixelSpacing = 2.7\n", "TiltAngle = -60.0\n", "TargetDefocus = -4\n">> }

\* the values of sys.argv[7], track_method
TrackMethods == {"0", "1", "2"}

\* (mutant) a poll that gives up after the first empty round
get_mdoc_round_gives_up(listing, rounds) ==
    IF Len(listing) > 0 THEN [break |-> TRUE, ret |-> listing[1]]
    ELSE IF rounds >= 1 THEN [break |-> TRUE, ret |-> OutDir \o "/ts.mrc.mdoc"]
    ELSE [break |-> FALSE, ret |-> ""]

\* one round of "while True" in get_mdoc on the listing p.rglob('*.mdoc') gave:
\* break with mdocs[0], or sleep and go round again
get_mdoc_round(listing, rounds) ==
    IF Len(listing) > 0 THEN [break |-> TRUE, ret |-> listing[1]]
    ELSE [break |-> FALSE, ret |-> ""]

\* strip_line[index+2:] with index = strip_line.find('='): what follows "= "
\* on a line, its trailing newline stripped
mdoc_value(line) ==
    LET stripped == IF EndsWith(line, "\n") THEN SubSeq(line, 1, Len(line) - 1) ELSE line
        eqs == { i \in 1..Len(stripped) : SubSeq(stripped, i, i) = "=" }
        index == IF eqs = {} THEN 0 ELSE CHOOSE i \in eqs : \A j \in eqs : i <= j
    IN  SubSeq(stripped, index + 2, Len(stripped))

\* str(round(float(value), 2) / 10) on the pixel spacings of the sample mdocs:
\* the division is one of binary floating point, and str gives its shortest
\* representation
pixel_size_str(value) ==
    CASE value = "2.7" -> "0.27"
      [] value = "13.5" -> "1.35"
      [] value = "3.3" -> "0.32999999999999996"
      [] OTHER -> "nan"

\* header_info['Pixel Size'] as the loop leaves it: of the last line that
\* contains PixelSpacing, absent when there is none
mdoc_pixel_size(lines) ==
    LET at == { k \in 1..Len(lines) : Contains(lines[k], "PixelSpacing") }
    IN  IF at = {} THEN [has |-> FALSE, value |-> ""]
        ELSE [has |-> TRUE,
              value |-> pixel_size_str(mdoc_value(lines[CHOOSE k \in at : \A j \in at : j <= k]))]

\* read_mdoc on the lines of the file: min() of no tilt angles raises
\* ValueError, the average of no defocus values ZeroDivisionError
read_mdoc(lines) ==
    LET angles == { k \in 1..Len(lines) : Contains(lines[k], "TiltAngle") }
        defocus == { k \in 1..Len(lines) : Contains(lines[k], "Defocus")
                                             /\ ~Contains(lines[k], "Target") }
    IN  IF angles = {} THEN [raised |-> TRUE, error |-> "ValueError"]
        ELSE IF defocus = {} THEN [raised |-> TRUE, error |-> "ZeroDivisionError"]
        ELSE [raised |-> FALSE, error |-> ""]

\* int(s) on a string of decimal digits; -1 stands for the ValueError int
\* raises on anything else ("EMPTY", "")
py_int(s) ==
    LET digit(k) == { n \in 0..9 : ToString(n) = SubSeq(s, k, k) }
        val[k \in 0..Len(s)] ==
            IF k = 0 THEN 0 ELSE val[k - 1] * 10 + (CHOOSE n \in digit(k) : TRUE)
    IN  IF Len(s) = 0 \/ \E k \in 1..Len(s) : digit(k) = {} THEN -1 ELSE val[Len(s)]

\* the arguments of the script that the model follows into the adoc; the
\* others are written as they were passed
DefaultArgs ==
    [pixel_size |-> "1.35", final_bin |-> "6",
     thickness_binned |-> "EMPTY", thickness_unbinned |-> "1500"]

\* (mutant) the thickness computed from thickness_binned alone
resolve_thickness_unscaled(kwargs) ==
    IF kwargs.thickness_binned # "EMPTY"
    THEN ToString(py_int(kwargs.thickness_binned))
    ELSE kwargs.thickness_unbinned

\* if kwargs['thickness_binned'] != "EMPTY":
\*     kwargs['thickness_unbinned'] = str(int(thickness_binned) * int(final_bin))
resolve_thickness(kwargs) ==
    IF kwargs.thickness_binned # "EMPTY"
    THEN ToString(py_int(kwargs.thickness_binned) * py_int(kwargs.final_bin))
    ELSE kwargs.thickness_unbinned

\* lines 66-71 of setup_serieswatcher.  The statement under
\* if kwargs['pixel_size'] == "EMPTY" is the comparison
\* kwargs['pixel_size'] == mdoc_info['Pixel Size']: it evaluates the subscript
\* (KeyError when the mdoc has no PixelSpacing line) and assigns nothing.
\* int() raises ValueError on a thickness_binned or final_bin that is no number.
resolve_args(kwargs, lines) ==
    IF kwargs.pixel_size = "EMPTY" /\ ~mdoc_pixel_size(lines).has
    THEN [raised |-> TRUE, error |-> "KeyError", kwargs |-> kwargs]
    ELSE IF /\ kwargs.thickness_binned # "EMPTY"
            /\ (py_int(kwargs.thickness_binned) < 0 \/ py_int(kwargs.final_bin) < 0)
    THEN [raised |-> TRUE, error |-> "ValueError", kwargs |-> kwargs]
    ELSE [raised |-> FALSE, error |-> "",
          kwargs |-> [kwargs EXCEPT !.thickness_unbinned = resolve_thickness(kwargs)]]

\* master_adoc.write_text(...): the lines of BRT_MASTER.adoc that carry the
\* arguments followed here
adoc_lines(kwargs, track_method) ==
    <<"runtime.Fiducials.any.trackingMethod = " \o track_method \o "\n",
      "runtime.AlignedStack.any.binByFactor = " \o kwargs.final_bin \o "\n",
      "setupset.copyarg.pixel = " \o kwargs.pixel_size \o "\n",
      "comparam.tilt.tilt.THICKNESS = " \o kwargs.thickness_unbinned \o "\n">>

\* the if/elif/else on int(kwargs['track_method']) after both files are written
track_supported(track_method) == track_method \in {"0", "1"}

\* master_com = Path.cwd() / Path('coms/BRT_MASTER.com') and master_adoc, taken
\* in the directory the script was started in
master_com == StartDir \o "/coms/BRT_MASTER.com"
master_adoc == StartDir \o "/coms/BRT_MASTER.adoc"

\* cmd = f'serieswatcher -com {com} -adoc {adoc}'
serieswatcher_cmd == "serieswatcher -com " \o master_com \o " -adoc " \o master_adoc

LwStart(present, text, track_method) ==
    [pc |-> "poll", mdocs |-> present, text |-> text, track_method |-> track_method,
     listing |-> <<>>, found |-> "", rounds |-> 0, written |-> <<>>,
     watcher |-> "none", seen |-> present # {}, vanished |-> FALSE,
     ctx |-> [prev_cwd |-> "", cwd |-> ""],
     kwargs |-> DefaultArgs, adoc |-> <<>>]

\* db_reconstruct.py started in StartDir; the halfset generator is not running
InitLauncherWith(t) ==
    /\ \E present \in SUBSET MdocPaths, text \in MdocTexts, tm \in TrackMethods :
           lw = LwStart(present, text, tm)
    /\ dirs = <<>> /\ cur = 1 /\ pc = "off" /\ prog = -1 /\ st = <<>>
    /\ outs = <<>> /\ errs = <<>> /\ trace = <<>> /\ tools = t
    /\ cwd = StartDir /\ tree = {} /\ db = {} /\ sync = 0 /\ ddw = DdwOff

InitLauncher == InitLauncherWith(StdoutOnly)

\* what the launcher never touches
not_lw == <<dirs, cur, pc, prog, st, outs, errs, tools, tree, db, sync, ddw>>

\* get_mdoc: mdocs = list(p.rglob('*.mdoc')); if mdocs: break
LwPoll ==
    /\ lw.pc = "poll"
    /\ LET listing == WalkOrder(lw.mdocs)
           r == get_mdoc_round(listing, lw.rounds)
       IN  lw' = [lw EXCEPT !.listing = listing,
                            !.found = r.ret,
                            !.pc = IF r.break THEN "read" ELSE "sleep",
                            !.rounds = IF r.break \/ @ >= MaxRounds THEN @ ELSE @ + 1]
    /\ UNCHANGED <<trace, cwd>>
    /\ UNCHANGED not_lw

\* time.sleep(60) returns
LwSleep ==
    /\ lw.pc = "sleep"
    /\ lw' = [lw EXCEPT !.pc = "poll"]
    /\ UNCHANGED <<trace, cwd>>
    /\ UNCHANGED not_lw

\* an mdoc file is written under out_dir by the acquisition
MdocAppears ==
    /\ lw.pc \in {"poll", "sleep", "read"}
    /\ \E m \in MdocPaths \ lw.mdocs :
           lw' = [lw EXCEPT !.mdocs = @ \cup {m}, !.seen = TRUE]
    /\ UNCHANGED <<trace, cwd>>
    /\ UNCHANGED not_lw

\* an mdoc file is removed again
MdocVanishes ==
    /\ lw.pc \in {"poll", "sleep", "read"}
    /\ \E m \in lw.mdocs :
           lw' = [lw EXCEPT !.mdocs = @ \ {m}, !.vanished = TRUE]
    /\ UNCHANGED <<trace, cwd>>
    /\ UNCHANGED not_lw

\* mdoc_info = read_mdoc(<the path get_mdoc returned>): assert mdoc.exists(),
\* then open(mdoc) and the parse.  A file that is gone fails the assert; one
\* that is removed after the assert and before the open makes open raise
\* FileNotFoundError.
LwRead ==
    /\ lw.pc = "read"
    /\ LET r == read_mdoc(lw.text)
           gone == lw.found \notin lw.mdocs
       IN  \/ /\ gone \/ r.raised
              /\ lw' = [lw EXCEPT !.pc = "raised"]
              /\ trace' = trace \o <<Ev("raise", 0, IF gone THEN "AssertionError" ELSE r.error,
                                         FALSE, FALSE)>>
           \/ /\ ~gone /\ ~r.raised
              /\ lw' = [lw EXCEPT !.pc = "render"]
              /\ trace' = trace \o <<Ev("return", 0, "read_mdoc", TRUE, FALSE)>>
           \/ /\ ~gone
              /\ lw' = [lw EXCEPT !.pc = "raised", !.mdocs = @ \ {lw.found},
                                  !.vanished = TRUE]
              /\ trace' = trace \o <<Ev("raise", 0, "FileNotFoundError", FALSE, FALSE)>>
    /\ UNCHANGED cwd
    /\ UNCHANGED not_lw

\* the rest of setup_serieswatcher: the "EMPTY" arguments resolved,
\* master_com.write_text, master_adoc.write_text, the appends, ValueError for
\* an unsupported tracking method
LwRender ==
    /\ lw.pc = "render"
    /\ LET r == resolve_args(lw.kwargs, lw.text)
       IN  IF r.raised
           THEN /\ lw' = [lw EXCEPT !.pc = "raised"]
                /\ trace' = trace \o <<Ev("raise", 0, r.error, FALSE, FALSE)>>
           ELSE /\ lw' = [lw EXCEPT !.written = <<"BRT_MASTER.com", "BRT_MASTER.adoc">>,
                                   !.adoc = adoc_lines(r.kwargs, lw.track_method),
                                   !.pc = IF track_supported(lw.track_method)
                                          THEN "launch" ELSE "raised"]
                /\ trace' = trace \o <<Ev("write", 0, "BRT_MASTER.com", FALSE, FALSE),
                                       Ev("write", 0, "BRT_MASTER.adoc", FALSE, FALSE)>>
                                  \o (IF track_supported(lw.track_method)
                                      THEN <<Ev("return", 0, "setup_serieswatcher", TRUE, FALSE)>>
                                      ELSE <<Ev("raise", 0, "ValueError", FALSE, FALSE)>>)
    /\ UNCHANGED cwd
    /\ UNCHANGED not_lw

\* the launcher has entered "with chdir(out_dir):", prev_cwd is taken
InBlock(l) == l.ctx.prev_cwd # ""

\* with chdir(out_dir): prev_cwd is taken and the directory changed, before
\* the statements of the block run
LwEnter ==
    /\ lw.pc = "launch"
    /\ ~InBlock(lw)
    /\ cwd' = chdir_enter(cwd, OutDir).cwd
    /\ lw' = [lw EXCEPT !.ctx = chdir_enter(cwd, OutDir)]
    /\ UNCHANGED trace
    /\ UNCHANGED not_lw

\* with chdir(out_dir): subprocess.run('serieswatcher ...', shell=True) starts
\* the watcher and waits for it; the block is entered on the way when it has
\* not been yet
LwLaunch ==
    /\ lw.pc = "launch"
    /\ LET ctx == IF InBlock(lw) THEN lw.ctx ELSE chdir_enter(cwd, OutDir)
       IN  /\ cwd' = ctx.cwd
           /\ lw' = [lw EXCEPT !.watcher = "running", !.pc = "watching", !.ctx = ctx]
    /\ trace' = trace \o <<Ev("run", 0, serieswatcher_cmd, FALSE, FALSE)>>
    /\ UNCHANGED not_lw

\* the serieswatcher process exits
WatcherExits ==
    /\ lw.pc = "watching"
    /\ lw.watcher = "running"
    /\ lw' = [lw EXCEPT !.watcher = "exited"]
    /\ UNCHANGED <<trace, cwd>>
    /\ UNCHANGED not_lw

\* subprocess.run has returned: the four print statements, and the with block
\* is left
LwPrint ==
    /\ lw.pc = "watching"
    /\ lw.watcher = "exited"
    /\ cwd' = chdir_exit(lw.ctx, "return")
    /\ lw' = [lw EXCEPT !.pc = "done"]
    /\ trace' = trace \o <<Ev("log", 0, "print: CHECK STATUS OF PIPELINE RECONSTRUCTION", FALSE, FALSE)>>
    /\ UNCHANGED not_lw

\* subprocess.run raises inside the with block: before serieswatcher is
\* started (no process to be had), or while the launcher waits for it (an
\* interrupt from the keyboard).  The exception leaves the with block and the
\* script.
LwRaises ==
    /\ tools.raises
    /\ \/ lw.pc = "launch" /\ InBlock(lw)
       \/ lw.pc = "watching"
    /\ cwd' = chdir_exit(lw.ctx, "raise")
    /\ lw' = [lw EXCEPT !.pc = "raised"]
    /\ trace' = trace \o <<Ev("raise", 0, "subprocess.run", FALSE, FALSE)>>
    /\ UNCHANGED not_lw

\* the steps of the script itself
LwStep == LwPoll \/ LwSleep \/ LwRead \/ LwRender \/ LwEnter \/ LwLaunch \/ LwPrint

NextLauncher == LwStep \/ MdocAppears \/ MdocVanishes \/ WatcherExits

\* a run of db_reconstruct.py: the script takes its next step whenever it has
\* one; nothing is assumed of the acquisition or of the watcher
SpecLauncher == InitLauncher /\ [][NextLauncher]_vars /\ WF_vars(LwStep)

\* the arguments passed for pixel_size, final_bin, thickness_binned and
\* thickness_unbinned: a value, "EMPTY", or no number
SetupArgs ==
    [pixel_size : {"EMPTY", "1.35"}, final_bin : {"4", "6"},
     thickness_binned : {"EMPTY", "300", "thick"},
     thickness_unbinned : {"EMPTY", "1500"}]

\* mdocs with their pixel spacing, and one without
SetupTexts ==
    { <<"PixelSpacing = 2.7\n", "TiltAngle = -60.0\n", "Defocus = -3.5\n">>,
      <<"PixelSpacing = 3.3\n", "TiltAngle = -60.0\n", "Defocus = -3.5\n">>,
      <<"TiltAngle = -60.0\n", "Defocus = -3.5\n">> }

\* db_reconstruct.py started with such arguments
InitSetup ==
    /\ \E present \in SUBSET MdocPaths, text \in SetupTexts, kw \in SetupArgs :
           lw = [LwStart(present, text, "0") EXCEPT !.kwargs = kw]
    /\ dirs = <<>> /\ cur = 1 /\ pc = "off" /\ prog = -1 /\ st = <<>>
    /\ outs = <<>> /\ errs = <<>> /\ trace = <<>> /\ tools = StdoutOnly
    /\ cwd = StartDir /\ tree = {} /\ db = {} /\ sync = 0 /\ ddw = DdwOff

SpecSetup == InitSetup /\ [][NextLauncher]_vars

(************************* the denoising wrapper ***************************)
\* what a dataset directory holds for the wrapper: both half-set outputs in
\* its halfsets directory, or only one of them
DdwKinds == {"both", "evens", "odds"}

DdwFiles(kinds) ==
    { BatchDir \o "/ts" \o ToString(i) \o "/halfsets/ts" \o ToString(i) \o "_rec_evens.mrc" :
        i \in { j \in 1..Len(kinds) : kinds[j] \in {"both", "evens"} } }
    \cup
    { BatchDir \o "/ts" \o ToString(i) \o "/halfsets/ts" \o ToString(i) \o "_rec_odds.mrc" :
        i \in { j \in 1..Len(kinds) : kinds[j] \in {"both", "odds"} } }

\* tuple(zip(evens, odds)) of two lists of the same length
Zip(evens, odds) == [k \in 1..Len(evens) |-> <<evens[k], odds[k]>>]

\* locate_halfsets(p) on the files under p: FileNotFoundError when nothing is
\* found, ValueError from zip(..., strict=True) when the lengths differ
locate_halfsets(ds, files) ==
    LET evens == rglob(ds, 1, files, "evens.mrc")
        odds == rglob(ds, 1, files, "odds.mrc")
    IN  IF Len(evens) = 0 /\ Len(odds) = 0
        THEN [raised |-> TRUE, error |-> "FileNotFoundError", halfsets |-> <<>>]
        ELSE IF Len(evens) # Len(odds)
        THEN [raised |-> TRUE, error |-> "ValueError", halfsets |-> <<>>]
        ELSE [raised |-> FALSE, error |-> "", halfsets |-> Zip(evens, odds)]

\* the results random.sample(range(0, len), n) may give: n distinct indices in
\* any order (0-indexed in the code, 1-indexed here); none when n > len, where
\* it raises ValueError
Samples(len, n) ==
    { smp \in [1..n -> 1..len] : \A a \in 1..n : \A b \in 1..n : a # b => smp[a] # smp[b] }

\* get_random_halfsets: tuple(zip([halfsets[i][0] ...], [halfsets[i][1] ...]))
get_random_halfsets(halfsets, samples) ==
    Zip([k \in 1..Len(samples) |-> halfsets[samples[k]][1]],
        [k \in 1..Len(samples) |-> halfsets[samples[k]][2]])

\* (mutant) the refine configuration built from the training pairs
refine_pairs_training(d) == d.training

\* construct_config(p, 'refine', halfsets, ...): the pairs handed over
refine_pairs(d) == d.halfsets

\* construct_config: the file written, with tomo0_files, tomo1_files and
\* refine_tomogram.model_checkpoint_file
construct_config(proc, pairs, checkpoint) ==
    [file  |-> IF proc = "fit" THEN "fit_config.yaml" ELSE "refine_config.yaml",
     tomo0 |-> [k \in 1..Len(pairs) |-> pairs[k][1]],
     tomo1 |-> [k \in 1..Len(pairs) |-> pairs[k][2]],
     model_checkpoint_file |-> checkpoint]

\* the checkpoints the fit may have left under val_loss, with their loss in
\* thousandths: none, or some
Checkpoints ==
    { {},
      { [name |-> "epoch=9-val_loss=0.250.ckpt", loss |-> 250] },
      { [name |-> "epoch=9-val_loss=0.250.ckpt", loss |-> 250],
        [name |-> "epoch=4-val_loss=0.125.ckpt", loss |-> 125] } }

\* get_best_model(proj_dir, mode='val'): sorted(zip(loss, ckpts))[0][1];
\* IndexError when there is no checkpoint
get_best_model(ckpts) ==
    IF ckpts = {} THEN [raised |-> TRUE, best |-> ""]
    ELSE [raised |-> FALSE,
          best |-> (CHOOSE c \in ckpts : \A o \in ckpts : c.loss <= o.loss).name]

\* the exit codes of the external tool
ExitCodes == {0, 1, 2}

\* filename = p / Path('fit_config.yaml') (or 'refine_config.yaml'), p the batch
\* directory given on the command line: the path construct_config returns
filename(proc) ==
    BatchDir \o "/" \o (IF proc = "fit" THEN "fit_config.yaml" ELSE "refine_config.yaml")

\* cmd = f'source activate DDW && ddw fit-model --config {config}'
fit_cmd == "source activate DDW && ddw fit-model --config " \o filename("fit")

\* cmd = f'source activate DDW && ddw refine-tomogram --config {config}'
refine_cmd == "source activate DDW && ddw refine-tomogram --config " \o filename("refine")

NoConfig == [file |-> "", tomo0 |-> <<>>, tomo1 |-> <<>>, model_checkpoint_file |-> ""]

DdwStart ==
    [pc |-> "locate", halfsets |-> <<>>, training |-> <<>>,
     fit_config |-> NoConfig, refine_config |-> NoConfig,
     fit_code |-> -1, model |-> "", exit |-> -1]

\* pyDDW.py started on the batch directory; the other scripts are not running
InitDdw ==
    /\ \E n \in 0..MaxDdwDirs : \E kinds \in [1..n -> DdwKinds] :
           /\ dirs = [i \in 1..n |-> Named(BaseDir, i)]
           /\ tree = DdwFiles(kinds)
    /\ ddw = DdwStart
    /\ cur = 1 /\ pc = "off" /\ prog = -1 /\ st = <<>>
    /\ outs = <<>> /\ errs = <<>> /\ trace = <<>> /\ tools = StdoutOnly
    /\ cwd = StartDir /\ db = {} /\ sync = 0 /\ lw = LwOff

\* what the wrapper never touches
not_ddw == <<dirs, cur, pc, prog, st, outs, errs, tools, cwd, tree, db, sync, lw>>

\* halfsets = locate_halfsets(p)
DdwLocate ==
    /\ ddw.pc = "locate"
    /\ LET r == locate_halfsets(dirs, tree)
       IN  IF r.raised
           THEN /\ ddw' = [ddw EXCEPT !.pc = "raised"]
                /\ trace' = trace \o <<Ev("raise", 0, r.error, FALSE, FALSE)>>
           ELSE /\ ddw' = [ddw EXCEPT !.pc = "sample", !.halfsets = r.halfsets]
                /\ trace' = trace \o <<Ev("return", 0, "locate_halfsets", TRUE, FALSE)>>
    /\ UNCHANGED not_ddw

\* training_sets = get_random_halfsets(halfsets)
DdwSample ==
    /\ ddw.pc = "sample"
    /\ IF Samples(Len(ddw.halfsets), SAMPLE_N) = {}
       THEN /\ ddw' = [ddw EXCEPT !.pc = "raised"]
            /\ trace' = trace \o <<Ev("raise", 0, "ValueError", FALSE, FALSE)>>
       ELSE \E smp \in Samples(Len(ddw.halfsets), SAMPLE_N) :
                /\ ddw' = [ddw EXCEPT !.pc = "fit_config",
                                      !.training = get_random_halfsets(ddw.halfsets, smp)]
                /\ trace' = trace \o <<Ev("return", 0, "get_random_halfsets", TRUE, FALSE)>>
    /\ UNCHANGED not_ddw

\* config_file = construct_config(p, 'fit', training_sets)
DdwFitConfig ==
    /\ ddw.pc = "fit_config"
    /\ ddw' = [ddw EXCEPT !.pc = "fit",
                          !.fit_config = construct_config("fit", ddw.training, "None")]
    /\ trace' = trace \o <<Ev("write", 0, "fit_config.yaml", FALSE, FALSE)>>
    /\ UNCHANGED not_ddw

\* (mutant) fit carrying on whatever the exit code
fit_exits_never(exit_code) == FALSE

\* if (exit_code := subprocess.run(cmd, shell=True).returncode) != 0: sys.exit(exit_code)
fit_exits(exit_code) == exit_code # 0

\* fit(config=config_file)
DdwFit ==
    /\ ddw.pc = "fit"
    /\ \E code \in ExitCodes :
           /\ ddw' = [ddw EXCEPT !.fit_code = code,
                                 !.pc = IF fit_exits(code) THEN "exited" ELSE "best",
                                 !.exit = IF fit_exits(code) THEN code ELSE @]
           /\ trace' = trace \o <<Ev("run", 0, fit_cmd, code = 0, FALSE)>>
    /\ UNCHANGED not_ddw

\* model = get_best_model(proj_dir, mode='val').as_posix()
DdwBest ==
    /\ ddw.pc = "best"
    /\ \E ckpts \in Checkpoints :
           LET r == get_best_model(ckpts)
           IN  IF r.raised
               THEN /\ ddw' = [ddw EXCEPT !.pc = "raised"]
                    /\ trace' = trace \o <<Ev("raise", 0, "IndexError", FALSE, FALSE)>>
               ELSE /\ ddw' = [ddw EXCEPT !.pc = "refine_config", !.model = r.best]
                    /\ trace' = trace \o <<Ev("return", 0, "get_best_model", TRUE, FALSE)>>
    /\ UNCHANGED not_ddw

\* config_file = construct_config(p, 'refine', halfsets, model_checkpoint_file=model)
DdwRefineConfig ==
    /\ ddw.pc = "refine_config"
    /\ ddw' = [ddw EXCEPT !.pc = "refine",
                          !.refine_config = construct_config("refine", refine_pairs(ddw), ddw.model)]
    /\ trace' = trace \o <<Ev("write", 0, "refine_config.yaml", FALSE, FALSE)>>
    /\ UNCHANGED not_ddw

\* refine(config=config_file)
DdwRefine ==
    /\ ddw.pc = "refine"
    /\ \E code \in ExitCodes :
           /\ ddw' = [ddw EXCEPT !.pc = IF code # 0 THEN "exited" ELSE "done",
                                 !.exit = code]
           /\ trace' = trace \o <<Ev("run", 0, refine_cmd, code = 0, FALSE)>>
    /\ UNCHANGED not_ddw

NextDdw == DdwLocate \/ DdwSample \/ DdwFitConfig \/ DdwFit \/ DdwBest
           \/ DdwRefineConfig \/ DdwRefine

\* a run of pyDDW.py
SpecDdw == InitDdw /\ [][NextDdw]_vars

(********************** steps that may raise *******************************)
\* tools whose run may raise; their output with or without the success marker
Raising == [stdouts |-> {"", "finished successfully\n"}, stderrs |-> {""}, raises |-> TRUE]

InitChdir ==
    \/ /\ \E n \in 0..MaxDatasets : \E ds \in [1..n -> BatchDirs] : InitWith(ds)
       /\ tools = Raising
    \/ InitLauncherWith(Raising)

NextChdir == Next \/ StepRaises \/ NextLauncher \/ LwRaises

\* either script, started in StartDir, with steps that return True, return
\* False or raise
SpecChdir == InitChdir /\ [][NextChdir]_vars

(************************* reading the history *****************************)
Events(op, i, what) ==
    { k \in 1..Len(trace) : trace[k].op = op /\ trace[k].ds = i /\ trace[k].what = what }

Called(i, fn) == Events("call", i, fn) # {}
Returned(i, fn) == Events("return", i, fn) # {}
Wrote(i, file) == Events("write", i, file) # {}
Rendered(i) == Returned(i, "construct_coms")

\* the script has stopped looping: generate_halfsets returned, or an exception
\* ended the process
BatchOver == pc \in {"subtransfer", "raised"}

(******************************** C1 ***************************************)
\* C1: check_metadata is a total three-way classification of the 16 presence
\* combinations of xf, _ali.mrc, tlt, xtilt: status 0 exactly when tlt or xtilt
\* is missing or both xf and ali are missing, 1 exactly when ali, tlt and xtilt
\* are present, 2 exactly when xf, tlt, xtilt are present and ali is not; the
\* trailing "return 0" is never the branch taken.  Stated on the state right
\* after the classification, where the directory is still as it was read.
C1_Classification ==
    (pc = "render" \/ (pc = "raised" /\ cur <= N /\ st[cur].status = 0)) =>
        LET d == dirs[cur]
            s == st[cur].status
        IN  /\ s \in {0, 1, 2}
            /\ (s = 0) <=> (~d.tlt \/ ~d.xtilt \/ (~d.xf /\ ~d.ali))
            /\ (s = 1) <=> (d.ali /\ d.tlt /\ d.xtilt)
            /\ (s = 2) <=> (d.xf /\ d.tlt /\ d.xtilt /\ ~d.ali)
            /\ st[cur].branch \in {1, 2, 3}

\* a directory with the aligned stack but no transform file was classified direct
C1_Witness ==
    /\ pc = "render"
    /\ st[cur].status = 1
    /\ ~dirs[cur].xf

(******************************** C2 ***************************************)
\* C2: a call of construct_coms writes newst.com if and only if the status is 2
\* (needs-realignment), and then newst.com is written before tilt_evens.com and
\* before tilt_odds.com; for status 1 the call writes no newst.com.
C2_NewstIffRealign ==
    \A i \in 1..N :
        Called(i, "construct_coms") =>
            /\ Wrote(i, "newst.com") <=> (st[i].status = 2)
            /\ \A a \in Events("write", i, "newst.com") :
                   \A b \in Events("write", i, "tilt_evens.com")
                            \cup Events("write", i, "tilt_odds.com") : a < b

\* the part of C2 the code does keep: a call that returns has written newst.com
\* exactly for status 2, and before the tilt job files
C2_WhenRendered ==
    \A i \in 1..N :
        Rendered(i) =>
            /\ Wrote(i, "newst.com") <=> (st[i].status = 2)
            /\ Wrote(i, "tilt_evens.com") /\ Wrote(i, "tilt_odds.com")
            /\ \A a \in Events("write", i, "newst.com") :
                   \A b \in Events("write", i, "tilt_evens.com")
                            \cup Events("write", i, "tilt_odds.com") : a < b

(******************************** C3 ***************************************)
\* Reading a job file back: the text after the last "INCLUDE " up to the end of
\* its line, split at the commas, each piece read as a decimal number (-1 for
\* a piece that is not one).
LastIndexOf(s, k) ==
    LET at == { i \in 1..(Len(s) - Len(k) + 1) : SubSeq(s, i, i + Len(k) - 1) = k }
    IN  IF at = {} THEN 0 ELSE CHOOSE i \in at : \A j \in at : j <= i

UpTo(s, k) ==
    LET at == { i \in 1..(Len(s) - Len(k) + 1) : SubSeq(s, i, i + Len(k) - 1) = k }
    IN  IF at = {} THEN s ELSE SubSeq(s, 1, (CHOOSE i \in at : \A j \in at : i <= j) - 1)

Digits == <<"0", "1", "2", "3", "4", "5", "6", "7", "8", "9">>

RECURSIVE ReadNat(_)
ReadNat(s) ==
    IF Len(s) = 0 THEN -1
    ELSE LET c == SubSeq(s, Len(s), Len(s))
             v == { n \in 1..10 : Digits[n] = c }
         IN  IF v = {} THEN -1
             ELSE IF Len(s) = 1 THEN (CHOOSE n \in v : TRUE) - 1
             ELSE LET hi == ReadNat(SubSeq(s, 1, Len(s) - 1))
                  IN  IF hi < 0 THEN -1 ELSE hi * 10 + (CHOOSE n \in v : TRUE) - 1

RECURSIVE ReadList(_)
ReadList(s) ==
    IF Len(s) = 0 THEN <<>>
    ELSE LET first == UpTo(s, ",")
         IN  IF Len(first) = Len(s) THEN <<ReadNat(s)>>
             ELSE <<ReadNat(first)>> \o ReadList(SubSeq(s, Len(first) + 2, Len(s)))

IncludeOf(text) ==
    LET at == LastIndexOf(text, "INCLUDE ")
    IN  IF at = 0 THEN <<-1>>
        ELSE ReadList(UpTo(SubSeq(text, at + 8, Len(text)), "\n"))

Range(seq) == { seq[k] : k \in 1..Len(seq) }
Increasing(seq) == \A a \in 1..Len(seq) : \A b \in 1..Len(seq) : a < b => seq[a] < seq[b]

\* C3: for a raw tilt series of Z >= 0 slices, the INCLUDE list of tilt_evens.com
\* is exactly {i+1 : 0 <= i < Z, i even} in increasing order, that of
\* tilt_odds.com is its complement in 1..Z in increasing order; the two are
\* disjoint and together cover 1..Z, each frame once.
C3_IncludeLists ==
    \A i \in 1..N :
        Rendered(i) =>
            LET z == dirs[i].mrc.nz
                e == IncludeOf(Text(dirs[i].tilt_evens))
                o == IncludeOf(Text(dirs[i].tilt_odds))
            IN  /\ Range(e) = { k \in 1..z : (k - 1) % 2 = 0 }
                /\ Range(o) = (1..z) \ Range(e)
                /\ Increasing(e) /\ Increasing(o)
                /\ Range(e) \cap Range(o) = {}
                /\ Len(e) + Len(o) = z

\* the spec's example: 10 slices give 1,3,5,7,9 and 2,4,6,8,10
C3_Witness ==
    \E i \in 1..N :
        /\ Rendered(i)
        /\ dirs[i].mrc.nz = SpecZ
        /\ IncludeOf(Text(dirs[i].tilt_evens)) = FramesFrom(0, SpecZ, 0)
        /\ Len(IncludeOf(Text(dirs[i].tilt_odds))) = SpecZ \div 2

(******************************** C4 ***************************************)
CountOf(s, k) ==
    Cardinality({ i \in 1..(Len(s) - Len(k) + 1) : SubSeq(s, i, i + Len(k) - 1) = k })

ThicknessLine(t) == "THICKNESS\t" \o ToString(t) \o "\n"

\* rendered with no tilt.com in the directory
RenderedFresh(i) == Rendered(i) /\ ~Exists(dirs[i].tilt_com)

\* C4 as stated: with no tilt.com, the THICKNESS written to both synthesized job
\* files equals (original X size / reconstructed X size) * reconstructed Z size,
\* the exact quotient, for all positive sizes.
C4_ThicknessExactQuotient ==
    \A i \in 1..N :
        RenderedFresh(i) =>
            LET fx == dirs[i].mrc.nx
                rx == dirs[i].rec.nx
                rz == dirs[i].rec.nz
                t  == (fx * rz) \div rx
            IN  /\ t * rx = fx * rz
                /\ Contains(Text(dirs[i].tilt_evens), ThicknessLine(t))
                /\ Contains(Text(dirs[i].tilt_odds), ThicknessLine(t))

\* C4 (amended): with no tilt.com, the THICKNESS written to both synthesized job
\* files is floor(original X size / reconstructed X size) * reconstructed Z
\* size, the same in the evens and the odds file, and each file has exactly one
\* THICKNESS line.
C4_ThicknessFloorQuotient ==
    \A i \in 1..N :
        RenderedFresh(i) =>
            LET fx == dirs[i].mrc.nx
                rx == dirs[i].rec.nx
                rz == dirs[i].rec.nz
                q  == fx \div rx
                ev == Text(dirs[i].tilt_evens)
                od == Text(dirs[i].tilt_odds)
            IN  /\ q * rx <= fx /\ fx < (q + 1) * rx
                /\ Contains(ev, ThicknessLine(q * rz))
                /\ Contains(od, ThicknessLine(q * rz))
                /\ CountOf(ev, "THICKNESS") = 1
                /\ CountOf(od, "THICKNESS") = 1

\* the spec's example: 4096 over 1024, times 512, gives 2048 in both files
C4_Witness ==
    \E i \in 1..N :
        /\ RenderedFresh(i)
        /\ dirs[i].mrc.nx = 4096 /\ dirs[i].rec.nx = 1024 /\ dirs[i].rec.nz = 512
        /\ Contains(Text(dirs[i].tilt_evens), ThicknessLine(2048))
        /\ Contains(Text(dirs[i].tilt_odds), ThicknessLine(2048))

(***************************** C5 and C6 ***********************************)
Steps == {"newstack", "tilt", "trimvol"}

\* positions of the returns of step runners, and the last of them: the step
\* whose captured outputs are in outs
StepReturns == { k \in 1..Len(trace) : trace[k].op = "return" /\ trace[k].what \in Steps }

RECURSIVE LastStepUpTo(_)
LastStepUpTo(k) ==
    IF k = 0 \/ (trace[k].op = "return" /\ trace[k].what \in Steps) THEN k
    ELSE LastStepUpTo(k - 1)

LastStep == trace[LastStepUpTo(Len(trace))]

\* a step runner has returned and nothing has run since: outs holds what its
\* commands printed
JustRan(fns) == outs # <<>> /\ LastStepUpTo(Len(trace)) > 0 /\ LastStep.what \in fns

Silent(out) == ~Contains(out, "finished successfully") /\ ~Contains(out, "ERROR")

\* positions of the False returns of step runners for dataset i
FalseReturns(i) == { k \in StepReturns : trace[k].ds = i /\ ~trace[k].ok }

\* C5: for newstack, tilt and trimvol: when the captured output of one of the
\* step's commands contains neither "finished successfully" nor "ERROR", the
\* step returns False (nothing is raised, no command is run a second time), and
\* generate_halfsets calls no later step for that dataset.
C5_SilentOutputFails ==
    /\ (JustRan(Steps) /\ \E k \in 1..Len(outs) : Silent(outs[k])) =>
           /\ ~LastStep.ok
           /\ st[LastStep.ds].end = "skipped"
    /\ \A k \in 1..Len(trace) :
           /\ (trace[k].op = "return" /\ trace[k].what \in Steps /\ ~trace[k].ok) =>
                  \A j \in (k + 1)..Len(trace) :
                      trace[j].ds = trace[k].ds => trace[j].op \notin {"call", "run", "raise"}
           /\ trace[k].op = "run" =>
                  \A j \in (k + 1)..Len(trace) :
                      ~(trace[j].op = "run" /\ trace[j].ds = trace[k].ds
                        /\ trace[j].what = trace[k].what)

\* tilt printed the success marker for the evens and nothing for the odds on a
\* dataset that is not the last: tilt returned False, the dataset is skipped
\* without trimvol and the loop is at the next dataset
C5_Witness ==
    /\ Len(outs) = 2
    /\ Contains(outs[1], "finished successfully") /\ Silent(outs[2])
    /\ JustRan({"tilt"}) /\ ~LastStep.ok
    /\ st[LastStep.ds].end = "skipped"
    /\ ~Called(LastStep.ds, "trimvol")
    /\ pc = "loop" /\ cur = LastStep.ds + 1 /\ cur <= N

\* C6: tilt (evens, then odds) and trimvol (evens, then odds) return True if and
\* only if both of their commands were classified successful; one success, in
\* either position, gives False.
C6_BothPartsNeeded ==
    JustRan({"tilt", "trimvol"}) =>
        /\ Len(outs) = 2
        /\ LastStep.ok <=> (Contains(outs[1], "finished successfully")
                            /\ Contains(outs[2], "finished successfully"))

\* trimvol rotated the evens only and returned False
C6_Witness ==
    /\ JustRan({"trimvol"})
    /\ Len(outs) = 2
    /\ Contains(outs[1], "finished successfully")
    /\ ~Contains(outs[2], "finished successfully")
    /\ ~LastStep.ok

(*************************** C7, C8 and C9 *********************************)
Before(a, b) == a # {} /\ b # {} /\ \A x \in a : \A y \in b : x < y

\* dataset i was taken through the pipeline: classified, its job files rendered,
\* and its first step started
Processed(i) ==
    /\ Called(i, "check_metadata")
    /\ Rendered(i)
    /\ Called(i, "newstack") \/ Called(i, "tilt")

\* C7: when newstack, tilt or trimvol returns False for a dataset, the driver
\* logs an error, runs none of that dataset's remaining steps and advances:
\* every dataset later in the input list is still classified, rendered and
\* processed, and no file already written for the failed dataset is removed.
C7_FailureSkipsOnlyThisDataset ==
    BatchOver =>
        \A i \in 1..N :
            FalseReturns(i) # {} =>
                /\ st[i].end = "skipped"
                /\ Cardinality(Events("log", i, "driver error")) = 1
                /\ \A k \in FalseReturns(i) :
                       \A j \in 1..Len(trace) :
                           (j > k /\ trace[j].ds = i) => trace[j].op \notin {"call", "run"}
                /\ Exists(dirs[i].tilt_evens) /\ Exists(dirs[i].tilt_odds)
                /\ (st[i].status = 2 => Exists(dirs[i].newst_com))
                /\ \A j \in (i + 1)..N : Processed(j)

\* C8: the datasets of a batch are isolated: whether dataset B is classified,
\* rendered and run through its steps does not depend on the classification or
\* the step outcomes of another dataset A, also when A is classified absent.
\* A dataset alone in a batch is always classified, rendered unless absent and
\* started once rendered; so isolation says the same of every dataset of a
\* batch once the script has stopped looping.
C8_Isolation ==
    BatchOver =>
        \A j \in 1..N :
            /\ Called(j, "check_metadata")
            /\ st[j].status \in {1, 2} => Called(j, "construct_coms")
            /\ Rendered(j) => (Called(j, "newstack") \/ Called(j, "tilt"))

\* C9: per dataset the order is classify, render, [align], reconstruct evens,
\* reconstruct odds, rotate evens, rotate odds: construct_coms only after
\* check_metadata returned 1 or 2; newstack only for status 2 and before tilt;
\* tilt for a status-2 dataset only after newstack returned True; trimvol only
\* after both reconstructions succeeded; and every dataset ends done (all
\* steps succeeded) or skipped.
C9_OrderAndEnd ==
    \A i \in 1..N :
        LET true_returns(fn) == { k \in Events("return", i, fn) : trace[k].ok }
        IN  /\ Called(i, "construct_coms") =>
                /\ st[i].status \in {1, 2}
                /\ Before(Events("call", i, "check_metadata"), Events("call", i, "construct_coms"))
            /\ Called(i, "newstack") =>
                /\ st[i].status = 2
                /\ Before(Events("return", i, "construct_coms"), Events("call", i, "newstack"))
            /\ Called(i, "tilt") =>
                /\ Before(Events("return", i, "construct_coms"), Events("call", i, "tilt"))
                /\ st[i].status = 2 => Before(true_returns("newstack"), Events("call", i, "tilt"))
                /\ Before(Events("run", i, "subm tilt_evens.com"), Events("run", i, "subm tilt_odds.com"))
            /\ Called(i, "trimvol") =>
                /\ Before(true_returns("tilt"), Events("call", i, "trimvol"))
                /\ dirs[i].full_rec_evens /\ dirs[i].full_rec_odds
                /\ Before(Events("run", i, trimvol_cmd(dirs[i].name, "evens")),
                          Events("run", i, trimvol_cmd(dirs[i].name, "odds")))
            /\ BatchOver =>
                /\ st[i].end \in {"done", "skipped"}
                /\ st[i].end = "done" <=> true_returns("trimvol") # {}

\* the order part of C9 alone, which the code keeps
C9_OrderOnly ==
    \A i \in 1..N :
        LET true_returns(fn) == { k \in Events("return", i, fn) : trace[k].ok }
        IN  /\ Called(i, "construct_coms") =>
                /\ st[i].status \in {1, 2}
                /\ Before(Events("call", i, "check_metadata"), Events("call", i, "construct_coms"))
            /\ Called(i, "newstack") =>
                /\ st[i].status = 2
                /\ Before(Events("return", i, "construct_coms"), Events("call", i, "newstack"))
            /\ Called(i, "tilt") =>
                /\ Before(Events("return", i, "construct_coms"), Events("call", i, "tilt"))
                /\ st[i].status = 2 => Before(true_returns("newstack"), Events("call", i, "tilt"))
            /\ Called(i, "trimvol") => Before(true_returns("tilt"), Events("call", i, "trimvol"))
            /\ st[i].end = "done" <=> true_returns("trimvol") # {}

(******************************** C10 **************************************)
Keys == {"InputProjections", "OutputFile", "IMAGEBINNED", "TILTFILE", "XTILTFILE", "UseGPU"}
IsKeyLine(l) == \E k \in Keys : Contains(l, k)

RenderedFromTemplate(i) == Rendered(i) /\ Exists(dirs[i].tilt_com)

StartsWith(s, p) == Len(p) <= Len(s) /\ SubSeq(s, 1, Len(p)) = p

\* line k of the template is line k of the output; a last line that has no
\* newline is followed on its line by the appended INCLUDE list
KeptAt(out, tl, k) ==
    /\ k <= Len(out)
    /\ \/ out[k] = tl[k]
       \/ /\ k = Len(tl)
          /\ ~Contains(tl[k], "\n")
          /\ StartsWith(out[k], tl[k] \o "INCLUDE ")

\* C10: rendering from an existing tilt.com, every template line that matches
\* none of the keys InputProjections, OutputFile, IMAGEBINNED, TILTFILE,
\* XTILTFILE, UseGPU appears verbatim and at its place in both outputs, only
\* lines matching a key are replaced, and the two outputs differ only in the
\* OutputFile line and the appended INCLUDE list.
C10_TemplatePreserved ==
    \A i \in 1..N :
        RenderedFromTemplate(i) =>
            LET tl == SplitLines(Text(dirs[i].tilt_com))
                el == SplitLines(Text(dirs[i].tilt_evens))
                ol == SplitLines(Text(dirs[i].tilt_odds))
            IN  /\ Len(el) = Len(ol)
                /\ \A k \in 1..Len(tl) :
                       ~IsKeyLine(tl[k]) => KeptAt(el, tl, k) /\ KeptAt(ol, tl, k)
                /\ \A k \in 1..Len(el) :
                       el[k] # ol[k] =>
                           \/ k <= Len(tl) /\ Contains(tl[k], "OutputFile")
                           \/ k = Len(el) /\ Contains(el[k], "INCLUDE ")

(******************************** C11 **************************************)
\* the key a line of a job file belongs to ("" for none): an XTILTFILE line is
\* not a TILTFILE line although it holds that word
KeyOf(l) ==
    IF Contains(l, "InputProjections") THEN "InputProjections"
    ELSE IF Contains(l, "OutputFile") THEN "OutputFile"
    ELSE IF Contains(l, "IMAGEBINNED") THEN "IMAGEBINNED"
    ELSE IF Contains(l, "XTILTFILE") THEN "XTILTFILE"
    ELSE IF Contains(l, "TILTFILE") THEN "TILTFILE"
    ELSE IF Contains(l, "UseGPU") THEN "UseGPU"
    ELSE ""

\* what the line of a key has to say in the job file of one half
SaysKey(l, key, name, half) ==
    CASE key = "InputProjections" -> Contains(l, name \o "_ali.mrc")
      [] key = "OutputFile"       -> Contains(l, name \o "_full_rec_" \o half \o ".mrc")
      [] key = "IMAGEBINNED"      -> Contains(l, ToString(BIN))
      [] key = "TILTFILE"         -> Contains(l, name \o ".tlt")
      [] key = "XTILTFILE"        -> Contains(l, name \o ".xtilt")
      [] key = "UseGPU"           -> l = "UseGPU\t    " \o ToString(GPU) \o "\n"
      [] OTHER                    -> TRUE

LinesOfKey(lines, key) == { k \in 1..Len(lines) : KeyOf(lines[k]) = key }

\* C11: rendering from an existing tilt.com, each key line of the template is
\* replaced by the line of the same key (InputProjections with <name>_ali.mrc,
\* OutputFile with the per-half output, IMAGEBINNED with the bin factor,
\* TILTFILE with <name>.tlt, XTILTFILE still XTILTFILE and with <name>.xtilt,
\* UseGPU with the configured GPU id), and each output has exactly as many
\* lines of each key as the template.
C11_KeyLinesReplaced ==
    \A i \in 1..N :
        RenderedFromTemplate(i) =>
            LET tl == SplitLines(Text(dirs[i].tilt_com))
                el == SplitLines(Text(dirs[i].tilt_evens))
                ol == SplitLines(Text(dirs[i].tilt_odds))
            IN  /\ \A k \in 1..Len(tl) :
                       KeyOf(tl[k]) # "" =>
                           /\ k <= Len(el) /\ k <= Len(ol)
                           /\ KeyOf(el[k]) = KeyOf(tl[k])
                           /\ KeyOf(ol[k]) = KeyOf(tl[k])
                           /\ SaysKey(el[k], KeyOf(tl[k]), dirs[i].name, "evens")
                           /\ SaysKey(ol[k], KeyOf(tl[k]), dirs[i].name, "odds")
                /\ \A key \in Keys :
                       /\ Cardinality(LinesOfKey(el, key)) = Cardinality(LinesOfKey(tl, key))
                       /\ Cardinality(LinesOfKey(ol, key)) = Cardinality(LinesOfKey(tl, key))

\* C11 without the two keys the loop mishandles: the InputProjections,
\* OutputFile, IMAGEBINNED and TILTFILE lines are replaced as stated
C11_FourKeysReplaced ==
    \A i \in 1..N :
        RenderedFromTemplate(i) =>
            LET tl == SplitLines(Text(dirs[i].tilt_com))
                el == SplitLines(Text(dirs[i].tilt_evens))
                ol == SplitLines(Text(dirs[i].tilt_odds))
            IN  \A k \in 1..Len(tl) :
                    KeyOf(tl[k]) \in {"InputProjections", "OutputFile", "IMAGEBINNED", "TILTFILE"} =>
                        /\ KeyOf(el[k]) = KeyOf(tl[k])
                        /\ KeyOf(ol[k]) = KeyOf(tl[k])
                        /\ SaysKey(el[k], KeyOf(tl[k]), dirs[i].name, "evens")
                        /\ SaysKey(ol[k], KeyOf(tl[k]), dirs[i].name, "odds")

(******************************** C12 **************************************)
\* the dataset a half-set output belongs to: its file name up to "_rec_"
OwnerOf(path) == UpTo(NameOf(path), "_rec_")

\* the destinations of the renames subtransfer has done
Moved == { trace[k].what : k \in { j \in 1..Len(trace) : trace[j].op = "move" } }

\* C12: subtransfer runs only after generate_halfsets has finished with all
\* datasets, and whatever the per-dataset outcomes (both outputs, one, none,
\* or outputs already under halfsets from an earlier run), every file it moves
\* ends up in the halfsets directory directly under the dataset directory that
\* produced it, the evens and odds of one dataset in the same directory and no
\* file of one dataset under another dataset.
C12_MovedUnderOwnDataset ==
    Called(0, "subtransfer") =>
        /\ Returned(0, "generate_halfsets")
        /\ \A i \in 1..N : st[i].end \in {"done", "skipped"}
        /\ \A f \in Moved :
               /\ f \in tree
               /\ ParentOf(f) = BatchDir \o "/" \o OwnerOf(f) \o "/halfsets"
        /\ \A f \in Moved : \A g \in Moved :
               OwnerOf(f) = OwnerOf(g) => ParentOf(f) = ParentOf(g)

\* the part of C12 the code keeps: subtransfer is called only when
\* generate_halfsets has returned, every dataset done or skipped
C12_AfterAllDatasets ==
    Called(0, "subtransfer") =>
        /\ Before(Events("return", 0, "generate_halfsets"), Events("call", 0, "subtransfer"))
        /\ \A i \in 1..N : st[i].end \in {"done", "skipped"}

(******************************** C13 **************************************)
\* the warnings sync_db has logged
SyncWarnings ==
    { k \in 1..Len(trace) : trace[k].op = "log" /\ Contains(trace[k].what, "Skipping sync") }

\* the local halfsets directories whose remote destination was not there
Skipped == { h \in Range(halfsets_dirs(dirs, tree)) : remote_key(h) \notin db }

\* C13: sync_db runs after relocation, and for every local halfsets directory:
\* if the remote destination keyed by the parent dataset's directory name
\* exists the directory is mirrored with rsync; if not, no rsync is run for it,
\* nothing is raised, the remaining directories are still visited, and a
\* warning is logged that identifies the skipped dataset (not the batch
\* directory).
C13_SyncSkipsAndNames ==
    /\ Called(0, "sync_db") =>
          /\ Before(Events("return", 0, "subtransfer"), Events("call", 0, "sync_db"))
          /\ Returned(0, "sync_db") \/ pc = "rsync"
    /\ Returned(0, "sync_db") =>
          \A h \in Range(halfsets_dirs(dirs, tree)) :
              IF remote_key(h) \in db
              THEN Events("run", 0, rsync_cmd(h)) # {}
              ELSE /\ Events("run", 0, rsync_cmd(h)) = {}
                   /\ \E k \in SyncWarnings : Contains(trace[k].what, remote_key(h))

\* the part of C13 the code keeps: every halfsets directory is visited, rsync
\* runs exactly for those whose destination exists, each of the others gets a
\* warning, and sync_db returns
C13_SyncSkips ==
    /\ Called(0, "sync_db") =>
          /\ Before(Events("return", 0, "subtransfer"), Events("call", 0, "sync_db"))
          /\ Returned(0, "sync_db") \/ pc = "rsync"
    /\ Returned(0, "sync_db") =>
          /\ \A h \in Range(halfsets_dirs(dirs, tree)) :
                 (remote_key(h) \in db) <=> (Events("run", 0, rsync_cmd(h)) # {})
          /\ Cardinality(SyncWarnings) = Cardinality(Skipped)

(******************************** C14 **************************************)
\* the launcher has left get_mdoc's loop only with a path its last poll found,
\* has written nothing and launched nothing before an mdoc existed, and has
\* launched only after both files were written
LauncherWaited ==
    /\ lw.pc \notin {"off", "poll", "sleep"} => lw.found \in Range(lw.listing)
    /\ lw.pc = "sleep" => lw.listing = <<>> /\ lw.found = ""
    /\ (lw.written # <<>> \/ lw.watcher # "none") => lw.seen
    /\ lw.written \in {<<>>, <<"BRT_MASTER.com", "BRT_MASTER.adoc">>}
    /\ lw.watcher # "none" => lw.written = <<"BRT_MASTER.com", "BRT_MASTER.adoc">>

\* a launcher whose run cannot raise once the mdoc is found: a supported
\* tracking method, an mdoc with tilt-angle and defocus entries, arguments that
\* resolve
LauncherCanRun ==
    /\ track_supported(lw.track_method)
    /\ ~read_mdoc(lw.text).raised
    /\ ~resolve_args(lw.kwargs, lw.text).raised

\* the part of C14 that holds at every step: nothing is rendered or launched
\* before an mdoc file exists, get_mdoc returns only a path its poll found, and
\* the watcher is launched only after both files were written
C14_NothingBeforeMdoc == []LauncherWaited

\* the part of C14 that holds of its last sentence: if an mdoc file appears and
\* stays, a launcher run with a supported tracking method on an mdoc that has
\* tilt-angle and defocus entries eventually launches the watcher
C14_ProceedsOnCompleteMdoc ==
    (LauncherCanRun /\ []~lw.vanished /\ <>(lw.mdocs # {})) => <>(lw.watcher = "running")

\* the last sentence of C14 for a launcher started with a supported tracking
\* method, whatever the mdoc holds when the poll finds it
C14_ProceedsOnSupportedMethod ==
    (track_supported(lw.track_method) /\ []~lw.vanished /\ <>(lw.mdocs # {}))
        => <>(lw.watcher = "running")

\* C14: the launcher never renders BRT_MASTER.com or BRT_MASTER.adoc and never
\* launches serieswatcher before an mdoc file exists under out_dir; get_mdoc
\* polls without a bound on the rounds and returns only a path found by the
\* poll; and if an mdoc file eventually appears and stays, the launcher
\* eventually renders both files and then launches the watcher, in that order.
C14_WaitsForMdoc ==
    /\ []LauncherWaited
    /\ ([]~lw.vanished /\ <>(lw.mdocs # {})) => <>(lw.watcher = "running")

\* the launcher found an mdoc that was there and stayed, and raised in
\* read_mdoc with nothing rendered and nothing launched
C14_RaisedOnFoundMdoc ==
    /\ lw.pc = "raised"
    /\ lw.found \in lw.mdocs
    /\ ~lw.vanished
    /\ track_supported(lw.track_method)
    /\ lw.written = <<>>
    /\ lw.watcher = "none"

\* the launcher polled MaxRounds empty rounds and more, then found the mdoc
\* that had appeared, rendered and launched
C14_Witness ==
    /\ lw.rounds = MaxRounds
    /\ lw.found \in lw.mdocs
    /\ lw.written = <<"BRT_MASTER.com", "BRT_MASTER.adoc">>
    /\ lw.watcher = "running"

(******************************** C15 **************************************)
\* positions in the history of the wrapper's runs of the external tool and of
\* its writes of a configuration
RanTool(cmd) == { k \in 1..Len(trace) : trace[k].op = "run" /\ trace[k].what = cmd }
WroteConfig(file) == { k \in 1..Len(trace) : trace[k].op = "write" /\ trace[k].what = file }
FoundBest == { k \in 1..Len(trace) : trace[k].op = "return" /\ trace[k].what = "get_best_model" }

PairsOf(config) == Zip(config.tomo0, config.tomo1)

\* C15: the denoising wrapper invokes the tool in the order fit then refine.
\* fit_config.yaml is written before fit-model runs; refine-tomogram runs only
\* after fit-model returned 0, a best checkpoint was found and
\* refine_config.yaml was written with that checkpoint; a non-zero exit code of
\* fit-model ends the process with that code and refine-tomogram never runs;
\* the fit configuration lists the sampled training pairs, the refine
\* configuration all located pairs.
C15_FitThenRefine ==
    /\ \A f \in RanTool(fit_cmd) : \E w \in WroteConfig("fit_config.yaml") : w < f
    /\ \A r \in RanTool(refine_cmd) :
          /\ ddw.fit_code = 0
          /\ \E f \in RanTool(fit_cmd) : \E b \in FoundBest : \E w \in WroteConfig("refine_config.yaml") :
                f < b /\ b < w /\ w < r /\ trace[f].ok
          /\ ddw.model # ""
          /\ ddw.refine_config.model_checkpoint_file = ddw.model
    /\ (ddw.fit_code \notin {-1, 0}) =>
          /\ ddw.pc = "exited"
          /\ ddw.exit = ddw.fit_code
          /\ RanTool(refine_cmd) = {}
    /\ (ddw.fit_config # NoConfig) =>
          /\ PairsOf(ddw.fit_config) = ddw.training
          /\ Len(ddw.training) = SAMPLE_N
          /\ \A k \in 1..Len(ddw.training) :
                \E h \in 1..Len(ddw.halfsets) : ddw.training[k] = ddw.halfsets[h]
    /\ (ddw.refine_config # NoConfig) => PairsOf(ddw.refine_config) = ddw.halfsets

\* both tools ran to the end on more located pairs than are sampled, with the
\* sample not in located order
C15_Witness ==
    /\ ddw.pc = "done"
    /\ Len(ddw.halfsets) > SAMPLE_N
    /\ ddw.training[1] # ddw.halfsets[1]
    /\ ddw.refine_config.model_checkpoint_file = "epoch=4-val_loss=0.125.ckpt"
    /\ RanTool(refine_cmd) # {}

\* fit-model failed and the process ended with its exit code
C15_WitnessExit ==
    /\ ddw.pc = "exited" /\ ddw.fit_code = 2 /\ ddw.exit = 2

(******************************** C16 **************************************)
\* the basename of a half-set output before _rec_evens.mrc / _rec_odds.mrc
StemOf(path) ==
    LET n == NameOf(path)
    IN  IF EndsWith(n, "_rec_evens.mrc") THEN SubSeq(n, 1, Len(n) - Len("_rec_evens.mrc"))
        ELSE IF EndsWith(n, "_rec_odds.mrc") THEN SubSeq(n, 1, Len(n) - Len("_rec_odds.mrc"))
        ELSE n

Matched(pair) ==
    /\ EndsWith(pair[1], "_rec_evens.mrc")
    /\ EndsWith(pair[2], "_rec_odds.mrc")
    /\ StemOf(pair[1]) = StemOf(pair[2])

EvensUnder == { f \in tree : EndsWith(f, "evens.mrc") }
OddsUnder == { f \in tree : EndsWith(f, "odds.mrc") }

\* C16: every (evens, odds) pair that locate_halfsets returns and that
\* get_random_halfsets passes on to training is a matched pair, both files of
\* the same dataset, whatever datasets have only one of the two files; when
\* the numbers of evens and odds files differ the call raises.
C16_MatchedPairs ==
    /\ \A k \in 1..Len(ddw.halfsets) : Matched(ddw.halfsets[k])
    /\ \A k \in 1..Len(ddw.training) : Matched(ddw.training[k])
    /\ (ddw.pc # "locate" /\ Cardinality(EvensUnder) # Cardinality(OddsUnder)) =>
          /\ ddw.pc = "raised"
          /\ ddw.halfsets = <<>>

\* the part of C16 that holds: unequal numbers of evens and odds files make
\* locate_halfsets raise, and every file returned is one found under p, evens
\* first and odds second
C16_RaisesOnUnequal ==
    /\ (ddw.pc # "locate" /\ Cardinality(EvensUnder) # Cardinality(OddsUnder)) =>
          /\ ddw.pc = "raised"
          /\ ddw.halfsets = <<>>
    /\ \A k \in 1..Len(ddw.halfsets) :
          ddw.halfsets[k][1] \in EvensUnder /\ ddw.halfsets[k][2] \in OddsUnder

(******************************** C17 **************************************)
\* the launcher is inside its with block: about to call subprocess.run, or
\* waiting in it
InsideBlock == lw.pc = "watching" \/ (lw.pc = "launch" /\ InBlock(lw))

\* C17: the chdir context manager around every external step (newstack, tilt,
\* trimvol, the serieswatcher launch) restores the working directory on every
\* exit path: after the step returned True, returned False from inside the
\* block or raised, the directory is the one before the call, so after any
\* sequence of steps over any number of datasets it is the one the script
\* started in.  Inside the launcher's block it is out_dir.
C17_CwdRestored ==
    /\ ~InsideBlock => cwd = StartDir
    /\ InsideBlock => cwd = OutDir /\ lw.ctx.prev_cwd = StartDir

\* the directory never changes across a whole step of the halfset generator
C17_StepKeepsCwd == [][(Newstack \/ Tilt \/ Trimvol \/ StepRaises) => cwd' = cwd]_vars

\* a step of the second dataset raised after the first dataset had a step
\* return True and a later one return False
C17_Witness ==
    /\ pc = "raised"
    /\ cur = 2
    /\ trace[Len(trace)].op = "raise" /\ trace[Len(trace)].what = "subprocess.run"
    /\ \E k \in 1..Len(trace) : trace[k].op = "return" /\ trace[k].ds = 1 /\ trace[k].what = "tilt" /\ trace[k].ok
    /\ \E k \in 1..Len(trace) : trace[k].op = "return" /\ trace[k].ds = 1 /\ trace[k].what = "trimvol" /\ ~trace[k].ok
    /\ cwd = StartDir

\* the launcher left its block by an exception, and by the end of the block
C17_WitnessLauncherRaised == lw.pc = "raised" /\ cwd = StartDir
C17_WitnessLauncherDone == lw.pc = "done" /\ cwd = StartDir

(******************************** C18 **************************************)
\* C18: both hand-offs are fire-and-forget: the launcher does not wait for the
\* serieswatcher process to exit before continuing past the launch, and the
\* halfset generator does not wait for the denoising job before it starts
\* sync_db; the statements after the launch are reached even if the launched
\* process never terminates.  For the launcher: once serieswatcher runs, the
\* print statements after the launch are reached, whatever the watcher does.
C18_LaunchDoesNotWait == (lw.pc = "watching") ~> (lw.pc = "done")

\* what the launcher does instead: it is past the launch only once the
\* watcher has exited
C18_LauncherWaits == (lw.pc = "done") => (lw.watcher = "exited")

\* the part of C18 that holds, for the halfset generator: sync_db has returned
\* while the denoising job is still running
C18_SyncWhileJobRuns == ddw.pc = "running" /\ Returned(0, "sync_db")

(******************************** C19 **************************************)
\* both job files are in the directory and hold nothing of an earlier run
BothTiltComs(d) ==
    /\ Exists(d.tilt_evens) /\ Exists(d.tilt_odds)
    /\ ~Contains(Text(d.tilt_evens), StaleText)
    /\ ~Contains(Text(d.tilt_odds), StaleText)
    /\ Contains(Text(d.tilt_evens), "_full_rec_evens.mrc")
    /\ Contains(Text(d.tilt_odds), "_full_rec_odds.mrc")

\* C19: for every dataset classified as direct or needs-realignment,
\* construct_coms completes and leaves both tilt_evens.com and tilt_odds.com
\* in the directory, whether or not an mdoc is present and whether or not job
\* files of an earlier run exist (stale ones are replaced, not appended to).
C19_ComsAlwaysRendered ==
    \A i \in 1..N :
        (st[i].status \in {1, 2} /\ Called(i, "construct_coms")) =>
            /\ Rendered(i)
            /\ BothTiltComs(dirs[i])

\* the part of C19 that holds: with an mdoc in the directory
C19_RenderedWithMdoc ==
    \A i \in 1..N :
        (st[i].status \in {1, 2} /\ Called(i, "construct_coms") /\ dirs[i].mdoc) =>
            /\ Rendered(i)
            /\ BothTiltComs(dirs[i])

(******************************** C20 **************************************)
\* positions in the history of the commands the last step ran, in order
LastCall ==
    CHOOSE c \in 1..Len(trace) :
        /\ trace[c].op = "call" /\ trace[c].what \in Steps
        /\ \A j \in (c + 1)..Len(trace) : ~(trace[j].op = "call" /\ trace[j].what \in Steps)
LastRuns == { k \in LastCall..Len(trace) : trace[k].op = "run" }
RunPos(k) ==
    IF k = 1 THEN CHOOSE r \in LastRuns : \A o \in LastRuns : r <= o
    ELSE CHOOSE r \in LastRuns : \A o \in LastRuns : o <= r

\* the logger.error of a command, which follows its run at once
ErrorLogged(k) ==
    /\ RunPos(k) < Len(trace)
    /\ trace[RunPos(k) + 1].op = "log"
    /\ trace[RunPos(k) + 1].what = "step error"

\* C20: the success marker decides first.  A command counts as successful if
\* and only if its captured standard output contains "finished successfully",
\* also when that output contains "ERROR" or when "ERROR" is only on standard
\* error; "ERROR" on standard output only selects whether a failure is logged
\* and never turns a success into a failure.  tilt and trimvol run the odds
\* command even when the evens command failed.
C20_MarkerDecides ==
    JustRan(Steps) =>
        /\ Len(errs) = Len(outs)
        /\ Len(outs) = (IF LastStep.what = "newstack" THEN 1 ELSE 2)
        /\ Cardinality(LastRuns) = Len(outs)
        /\ LastStep.ok <=> \A k \in 1..Len(outs) : Contains(outs[k], "finished successfully")
        /\ \A k \in 1..Len(outs) :
              ErrorLogged(k) <=> (/\ ~Contains(outs[k], "finished successfully")
                                  /\ Contains(outs[k], "ERROR"))

\* tilt returned True although the evens output holds both markers and the
\* odds command wrote ERROR to standard error only
C20_Witness ==
    /\ JustRan({"tilt"})
    /\ Contains(outs[1], "ERROR") /\ Contains(outs[1], "finished successfully")
    /\ Contains(outs[2], "finished successfully") /\ ~Contains(outs[2], "ERROR")
    /\ Contains(errs[2], "ERROR")
    /\ LastStep.ok
    /\ ~ErrorLogged(1) /\ ~ErrorLogged(2)

\* trimvol ran the odds command after the evens command had failed with an
\* error logged, and the success marker on standard error did not count
C20_WitnessOddsRun ==
    /\ JustRan({"trimvol"})
    /\ Contains(outs[1], "ERROR") /\ ~Contains(outs[1], "finished successfully")
    /\ Contains(errs[1], "finished successfully")
    /\ Contains(outs[2], "finished successfully")
    /\ Cardinality(LastRuns) = 2
    /\ ErrorLogged(1) /\ ~ErrorLogged(2)
    /\ ~LastStep.ok

(******************************** C21 **************************************)
\* the value a line of BRT_MASTER.adoc gives its key
AdocValue(key) ==
    LET at == { k \in 1..Len(lw.adoc) : BeginsWith(lw.adoc[k], key \o " = ") }
    IN  mdoc_value(lw.adoc[CHOOSE k \in at : TRUE])

AdocWritten == lw.adoc # <<>>

\* C21: parameters passed as "EMPTY" are resolved before the adoc is written.
\* When pixel_size is "EMPTY" the value of setupset.copyarg.pixel is the pixel
\* size read from the mdoc, never the literal "EMPTY"; when thickness_binned
\* is not "EMPTY" the value of comparam.tilt.tilt.THICKNESS is
\* thickness_binned times final_bin, otherwise the passed thickness_unbinned.
C21_EmptyResolved ==
    AdocWritten =>
        /\ (lw.kwargs.pixel_size = "EMPTY") =>
              /\ AdocValue("setupset.copyarg.pixel") = mdoc_pixel_size(lw.text).value
              /\ AdocValue("setupset.copyarg.pixel") # "EMPTY"
        /\ (lw.kwargs.pixel_size # "EMPTY") =>
              AdocValue("setupset.copyarg.pixel") = lw.kwargs.pixel_size
        /\ AdocValue("comparam.tilt.tilt.THICKNESS") =
              (IF lw.kwargs.thickness_binned # "EMPTY"
               THEN ToString(py_int(lw.kwargs.thickness_binned) * py_int(lw.kwargs.final_bin))
               ELSE lw.kwargs.thickness_unbinned)

\* the part of C21 that holds: the thickness, and a pixel size that was passed
C21_ThicknessResolved ==
    AdocWritten =>
        /\ (lw.kwargs.pixel_size # "EMPTY") =>
              AdocValue("setupset.copyarg.pixel") = lw.kwargs.pixel_size
        /\ AdocValue("comparam.tilt.tilt.THICKNESS") =
              (IF lw.kwargs.thickness_binned # "EMPTY"
               THEN ToString(py_int(lw.kwargs.thickness_binned) * py_int(lw.kwargs.final_bin))
               ELSE lw.kwargs.thickness_unbinned)
        /\ py_int(lw.kwargs.thickness_binned) >= 0 \/ lw.kwargs.thickness_binned = "EMPTY"

\* an adoc written with a thickness of 300 binned by 6
C21_WitnessThickness ==
    /\ AdocWritten
    /\ lw.kwargs.thickness_binned = "300" /\ lw.kwargs.final_bin = "6"
    /\ AdocValue("comparam.tilt.tilt.THICKNESS") = "1800"

====
